---------------------------- MODULE Spec2Model ----------------------------
(***************************************************************************)
(* DrakonixAnvil: the lifecycle orchestrator (src/src/app.rs), its         *)
(* background start/stop tasks and readiness poller, and the RCON client   *)
(* (src/src/rcon.rs).                                                      *)
(*                                                                         *)
(* Eight specifications share this module:                                 *)
(*   Spec      the orchestrator: instance table, persisted list, task      *)
(*             channel, background tasks, driven by the dashboard.         *)
(*   SpecTask  one Start background task followed step by step, the       *)
(*             readiness poller iteration by iteration, with the messages  *)
(*             it sends recorded.                                          *)
(*   SpecRcon  one RCON client session over a byte stream.                 *)
(*   SpecPort  the port functions on a host whose sockets change.          *)
(*   SpecCore  the handlers of the orchestrator called on one instance in  *)
(*             any status.                                                 *)
(*   SpecCoreFair  one run of SpecCore under the scheduling of the tasks   *)
(*             and of the reconciliation (weak fairness).                  *)
(*   SpecPair  the handlers called on two instances, their tasks           *)
(*             interleaved.                                                *)
(*   SpecBackup  create_backup, its two threads and their messages.        *)
(* Each specification leaves the variables of the others fixed.            *)
(***************************************************************************)
EXTENDS Integers, Sequences, FiniteSets, TLC

VARIABLES
    \* ---- orchestrator (DrakonixApp) ----
    servers,      \* self.servers: Vec<ServerInstance>
    disk,         \* servers.json as last written by save_servers
    docker,       \* self.docker.is_some()
    task_queue,   \* the mpsc channel task_tx -> task_rx
    tasks,        \* background tasks spawned on the runtime, by slot
    last,         \* history: the last operation, how it ended, the status
                  \* its instance had before it, what load_servers returned
                  \* to it, and the clicks so far
    \* ---- one Start task observed in isolation ----
    tk,           \* the task's locals and position
    trace,        \* history: what the task has sent and called so far
    \* ---- one RCON session ----
    rcon,         \* the client, its stream and the last exchange
    \* ---- the port functions on a host ----
    net,          \* the instance table, the host's sockets, the last call
    \* ---- the operations called in any state ----
    hist,         \* history: what the handlers and tasks have done so far
    \* ---- one server's backups ----
    backup        \* self.backup_progress, the backup threads and their
                  \* progress channels

lifeVars == <<servers, disk, docker, task_queue, tasks, last>>
taskVars == <<tk, trace>>
rconVars == <<rcon>>
portVars == <<net>>
vars ==
    <<servers, disk, docker, task_queue, tasks, last, tk, trace, rcon, net,
      hist, backup>>

---------------------------------------------------------------------------
\* Bounds of the model
MaxTasks == 2     \* background tasks alive at once
MaxOps == 4       \* clicks on the dashboard in one run
MaxExtra == 1     \* detail lines logged for an online server
MaxPayload == 2   \* bytes of a short RCON payload
MaxRequestId == 3 \* request ids one RCON client hands out
MaxBound == 1     \* ports other processes listen on at once
MaxCoreOps == 3   \* calls of the handlers in one run, no dashboard between

\* Inputs
Names == {"a", "b"}
Ports == {25565, 25566}
ContainerIds == {"c1", "c2"}
NoneC == "None"

\* Program constants
max_attempts == 120
SERVERDATA_AUTH == 3
SERVERDATA_AUTH_RESPONSE == 2
SERVERDATA_EXECCOMMAND == 2
SERVERDATA_RESPONSE_VALUE == 0
MinLength == 10       \* receive_packet: smallest length accepted
MaxLength == 4096     \* receive_packet: largest length accepted
MaxPort == 65535      \* u16::MAX
FirstFreePort == 1024 \* the ports below need root privileges

---------------------------------------------------------------------------
\* ServerStatus (src/src/server/mod.rs)
St(t) == [tag |-> t, msg |-> ""]
Error(m) == [tag |-> "Error", msg |-> m]

Stopped == St("Stopped")
Pulling == St("Pulling")
Starting == St("Starting")
Initializing == St("Initializing")
Running == St("Running")
Stopping == St("Stopping")

ErrorCauses == {"Failed to create data dir", "Failed to pull image",
                "Failed to create container", "Failed to start container",
                "Container exited unexpectedly", "Failed to stop"}
ServerStatus == {Stopped, Pulling, Starting, Initializing, Running, Stopping}
                  \cup {Error(m) : m \in ErrorCauses}

\* TaskMessage
LogMsg(text) == [type |-> "Log", text |-> text]
StatusMsg(name, status, container_id) ==
    [type |-> "ServerStatus", name |-> name, status |-> status,
     container_id |-> container_id]

IsStatusMsg(m) == m.type = "ServerStatus"

RECURSIVE StatusOnly(_)
StatusOnly(s) ==
    IF s = <<>> THEN <<>>
    ELSE (IF IsStatusMsg(Head(s)) THEN <<Head(s)>> ELSE <<>>) \o StatusOnly(Tail(s))

\* The text of the last Log message of s, or d when s holds none
RECURSIVE LastLog(_, _)
LastLog(s, d) ==
    IF s = <<>> THEN d
    ELSE LastLog(Tail(s), IF IsStatusMsg(Head(s)) THEN d ELSE Head(s).text)

---------------------------------------------------------------------------
\* The Start background task: the code between two await points is one step.
\* A task record: kind, name, needs_container, cid, pc, attempt.
\* r is the answer of the awaited container-service call.

NoTask == [kind |-> "none", name |-> "", needs |-> FALSE, cid |-> NoneC,
           pc |-> "idle", attempt |-> 0]

NewStartTask(name, needs, cid) ==
    [kind |-> "start", name |-> name, needs |-> needs, cid |-> cid,
     pc |-> IF needs THEN "spawned" ELSE "start_container", attempt |-> 0]

NewStopTask(name, cid) ==
    [kind |-> "stop", name |-> name, needs |-> FALSE, cid |-> cid,
     pc |-> "stop_container", attempt |-> 0]

Finished(t) == [t EXCEPT !.pc = "done"]

\* app.rs 358-359: the first send, then ensure_image is awaited
TaskBegin(t) ==
    [t |-> [t EXCEPT !.pc = "ensure_image"],
     out |-> <<LogMsg("Checking Docker image")>>]

AfterEnsureImage_SilentOnFailure(t, ok) ==
    IF ~ok
    THEN [t |-> Finished(t), out |-> <<LogMsg("Failed to pull image")>>]
    ELSE [t |-> [t EXCEPT !.pc = "create_container"],
          out |-> <<LogMsg("Docker image ready"),
                    StatusMsg(t.name, Starting, NoneC),
                    LogMsg("Creating container")>>]

\* app.rs 361-381: ensure_image answered
AfterEnsureImage(t, ok) ==
    IF ~ok
    THEN [t |-> Finished(t),
          out |-> <<LogMsg("Failed to pull image"),
                    StatusMsg(t.name, Error("Failed to pull image"), NoneC)>>]
    ELSE [t |-> [t EXCEPT !.pc = "create_container"],
          out |-> <<LogMsg("Docker image ready"),
                    StatusMsg(t.name, Starting, NoneC),
                    LogMsg("Creating container")>>]

AfterCreateContainer_Retries(t, ok, new_container_id) ==
    IF ~ok
    THEN [t |-> t,
          out |-> <<LogMsg("Failed to create container"),
                    StatusMsg(t.name, Error("Failed to create container"), NoneC)>>]
    ELSE [t |-> [t EXCEPT !.pc = "start_container", !.cid = new_container_id],
          out |-> <<LogMsg("Created container")>>]

\* app.rs 382-396 and 417-425: create_minecraft_container answered
AfterCreateContainer(t, ok, new_container_id) ==
    IF ~ok
    THEN [t |-> Finished(t),
          out |-> <<LogMsg("Failed to create container"),
                    StatusMsg(t.name, Error("Failed to create container"), NoneC)>>]
    ELSE [t |-> [t EXCEPT !.pc = "start_container", !.cid = new_container_id],
          out |-> <<LogMsg("Created container")>>]

AfterStartContainer_NoHandle(t, ok) ==
    IF ~ok
    THEN [t |-> Finished(t),
          out |-> <<LogMsg("Failed to start container"),
                    StatusMsg(t.name, Error("Failed to start container"), t.cid)>>]
    ELSE [t |-> [t EXCEPT !.pc = "poll", !.attempt = 1],
          out |-> <<LogMsg("Container started, waiting for MC server to initialize"),
                    StatusMsg(t.name, Initializing, NoneC)>>]

\* app.rs 396-415 (new container) and 429-449 (existing one): start_container
\* answered; on success the poller is entered
AfterStartContainer(t, ok) ==
    IF ~ok
    THEN [t |-> Finished(t),
          out |-> <<LogMsg("Failed to start container"),
                    StatusMsg(t.name, Error("Failed to start container"), t.cid)>>]
    ELSE [t |-> [t EXCEPT !.pc = "poll", !.attempt = 1],
          out |-> <<LogMsg("Container started, waiting for MC server to initialize"),
                    StatusMsg(t.name, Initializing, t.cid)>>]

\* app.rs 964-979: the throttled progress line
ThrottledLog(attempt, text) ==
    IF attempt % 6 = 0 THEN <<LogMsg(text)>> ELSE <<>>

\* app.rs 893-961: the lines logged for an online server
OnlineLogs(extra) ==
    <<LogMsg("is now accepting connections")>> \o [i \in 1..extra |-> LogMsg("detail")]

OnExited_Continues(t) ==
    [t |-> [t EXCEPT !.attempt = t.attempt + 1], probed |-> TRUE,
     out |-> <<LogMsg("Container has stopped")>>]

\* app.rs 872-881: the liveness check answered Ok(false)
OnExited(t) ==
    [t |-> Finished(t), probed |-> FALSE,
     out |-> <<LogMsg("Container has stopped"),
               StatusMsg(t.name, Error("Container exited unexpectedly"), t.cid)>>]

OnOnline_KeepsPolling(t, pre, extra) ==
    [t |-> [t EXCEPT !.attempt = t.attempt + 1], probed |-> TRUE,
     out |-> pre \o OnlineLogs(extra) \o <<StatusMsg(t.name, Running, t.cid)>>]

\* app.rs 893-961: the probe answered online
OnOnline(t, pre, extra) ==
    [t |-> Finished(t), probed |-> TRUE,
     out |-> pre \o OnlineLogs(extra) \o <<StatusMsg(t.name, Running, t.cid)>>]

OnExhausted_SetsError(t, pre, line) ==
    [t |-> Finished(t), probed |-> TRUE,
     out |-> pre \o line \o <<LogMsg("still initializing after 10 minutes"),
                              StatusMsg(t.name, Error("Timed out"), t.cid)>>]

\* app.rs 985-990: the statements after the loop, which the last iteration
\* falls through to
OnExhausted(t, pre, line) ==
    [t |-> Finished(t), probed |-> TRUE,
     out |-> pre \o line \o <<LogMsg("still initializing after 10 minutes")>>]

PollIteration_ErrStops(t, live, probe, extra) ==
    IF live \in {"false", "err"}
    THEN OnExited(t)
    ELSE IF probe = "online"
         THEN OnOnline(t, <<>>, extra)
         ELSE LET line == ThrottledLog(t.attempt,
                              IF probe = "offline" THEN "not ready yet"
                              ELSE "Waiting to initialize")
              IN  IF t.attempt < max_attempts
                  THEN [t |-> [t EXCEPT !.attempt = t.attempt + 1],
                        probed |-> TRUE, out |-> line]
                  ELSE OnExhausted(t, <<>>, line)

\* app.rs 867-991: one iteration of poll_mc_server_ready.
\* live is the answer of is_container_running: "true", "false" or "err";
\* probe is the answer of client.ping: "online", "offline" or "connfail"
\* (not asked for when live = "false"); extra is the number of detail lines
\* the status data gives.
PollIteration(t, live, probe, extra) ==
    IF live = "false"
    THEN OnExited(t)
    ELSE LET pre == IF live = "err"
                    THEN <<LogMsg("Failed to check container status")>> ELSE <<>>
         IN  IF probe = "online"
             THEN OnOnline(t, pre, extra)
             ELSE LET line == ThrottledLog(t.attempt,
                                  IF probe = "offline" THEN "not ready yet"
                                  ELSE "Waiting to initialize")
                  IN  IF t.attempt < max_attempts
                      THEN [t |-> [t EXCEPT !.attempt = t.attempt + 1],
                            probed |-> TRUE, out |-> pre \o line]
                      ELSE OnExhausted(t, pre, line)

AfterStopContainer_SilentOnFailure(t, ok) ==
    [t |-> Finished(t),
     out |-> IF ok
             THEN <<LogMsg("stopped successfully"),
                    StatusMsg(t.name, Stopped, t.cid)>>
             ELSE <<LogMsg("Failed to stop")>>]

AfterStopContainer_ReportsTwice(t, ok) ==
    [t |-> Finished(t),
     out |-> IF ok
             THEN <<StatusMsg(t.name, Stopped, t.cid),
                    StatusMsg(t.name, Running, t.cid)>>
             ELSE <<StatusMsg(t.name, Error("Failed to stop"), t.cid)>>]

AfterStopContainer_AlwaysStopped(t, ok) ==
    [t |-> Finished(t),
     out |-> <<LogMsg("stopped successfully"),
               StatusMsg(t.name, Stopped, t.cid)>>]

\* app.rs 481-501: the Stop task, stop_container answered
AfterStopContainer(t, ok) ==
    IF ok
    THEN [t |-> Finished(t),
          out |-> <<LogMsg("stopped successfully"),
                    StatusMsg(t.name, Stopped, t.cid)>>]
    ELSE [t |-> Finished(t),
          out |-> <<LogMsg("Failed to stop"),
                    StatusMsg(t.name, Error("Failed to stop"), t.cid)>>]


---------------------------------------------------------------------------
\* The orchestrator (DrakonixApp)

Instance(name, port) ==
    [name |-> name, port |-> port, container_id |-> NoneC, status |-> Stopped]

\* self.servers.iter().position(|s| s.config.name == name); 0 stands for None
IndexOf(svs, name) ==
    IF \E i \in 1..Len(svs) : svs[i].name = name
    THEN CHOOSE i \in 1..Len(svs) :
            /\ svs[i].name = name
            /\ \A j \in 1..(i - 1) : svs[j].name # name
    ELSE 0

RemoveAt(svs, idx) == SubSeq(svs, 1, idx - 1) \o SubSeq(svs, idx + 1, Len(svs))

IsTransient_NoInitializing(status) ==
    status.tag \in {"Starting", "Stopping", "Pulling"}

\* app.rs 116-121: the statuses DrakonixApp::new resets
IsTransient(status) ==
    status.tag \in {"Starting", "Stopping", "Pulling", "Initializing"}

\* app.rs 115-122
ResetTransient(svs) ==
    [i \in 1..Len(svs) |->
        IF IsTransient(svs[i].status) THEN [svs[i] EXCEPT !.status = Stopped]
        ELSE svs[i]]

InternalConflict_CountsPulling(svs, port, server_name) ==
    \E i \in 1..Len(svs) :
        /\ svs[i].name # server_name
        /\ svs[i].port = port
        /\ svs[i].status.tag \in {"Running", "Starting", "Initializing",
                                  "Pulling"}

\* app.rs 191-200: the scan of the instance table
InternalConflict(svs, port, server_name) ==
    \E i \in 1..Len(svs) :
        /\ svs[i].name # server_name
        /\ svs[i].port = port
        /\ svs[i].status.tag \in {"Running", "Starting", "Initializing"}

\* The host as the port functions see it: bound, the ports other processes
\* listen on; held, the ports listeners of this program hold; root, whether
\* the program may bind the ports below 1024
Host(bound, held, root) == [bound |-> bound, held |-> held, root |-> root]

\* std::net::TcpListener::bind("0.0.0.0:<port>") (app.rs 203, 236): the
\* answer and the host with the new listener.  Port 0 asks the system for
\* any free port.  Of the errors the permission is looked at first.
bind(port, host) ==
    IF port \in 1..(FirstFreePort - 1) /\ ~host.root
    THEN [res |-> "PermissionDenied", host |-> host]
    ELSE IF port \in host.bound \cup host.held
    THEN [res |-> "AddrInUse", host |-> host]
    ELSE [res |-> "Ok",
          host |-> IF port = 0 THEN host
                   ELSE [host EXCEPT !.held = @ \cup {port}]]

\* The end of a listener's scope (app.rs 204-207, 236): the port is free again
drop(port, host) == [host EXCEPT !.held = @ \ {port}]

\* The probe of the two functions: bind a listener and let it go
Probe(port, host) ==
    LET b == bind(port, host) IN
    [res |-> b.res, host |-> IF b.res = "Ok" THEN drop(port, b.host) ELSE host]

\* app.rs 233-241: the first port from start_port up to 65535 whose probe
\* succeeds, NoPort for None.  A probe fails only on a port below 1024 or on
\* one of the busy ports, so the search ends within the first free port
\* and as many ports after it as are busy.
NoPort == -1
find_available_port(start_port, host) ==
    LET busy == host.bound \cup host.held
        from == IF start_port \in 1..(FirstFreePort - 1) /\ ~host.root
                THEN FirstFreePort ELSE start_port
        upto == IF from + Cardinality(busy) > MaxPort THEN MaxPort
                ELSE from + Cardinality(busy)
        ok == {q \in from..upto : Probe(q, host).res = "Ok"}
    IN  IF ok = {} THEN NoPort
        ELSE CHOOSE q \in ok : \A r \in ok : q <= r

\* u16 addition (server/mod.rs 240, app.rs 216): with overflow checks (the
\* debug profile) a sum above 65535 panics, without them it wraps
AddU16(a, b, overflow_checks) ==
    IF a + b <= MaxPort THEN [res |-> "Ok", value |-> a + b]
    ELSE IF overflow_checks THEN [res |-> "panic", value |-> 0]
    ELSE [res |-> "Ok", value |-> (a + b) % (MaxPort + 1)]

\* server/mod.rs 238-241
rcon_port(port, overflow_checks) == AddU16(port, 10, overflow_checks)

\* app.rs 189-231.  The answer: res, "none" for None and else the kind of
\* conflict reported ("panic" when the call aborts), suggested, the port the
\* message proposes, and the host after the call.  Bind errors other than
\* AddrInUse and PermissionDenied are not modelled.
check_port_conflict(svs, port, server_name, host, overflow_checks) ==
    IF InternalConflict(svs, port, server_name)
    THEN [res |-> "internal", suggested |-> NoPort, host |-> host]
    ELSE LET p == Probe(port, host) IN
         IF p.res = "Ok"
         THEN [res |-> "none", suggested |-> NoPort, host |-> p.host]
         ELSE IF p.res = "AddrInUse"
         THEN LET suggested == find_available_port(port, host)
                  next == AddU16(port, 1, overflow_checks)
              IN  IF next.res = "panic"
                  THEN [res |-> "panic", suggested |-> NoPort, host |-> host]
                  ELSE [res |-> "addr_in_use",
                        suggested |-> IF suggested = NoPort THEN next.value
                                      ELSE suggested,
                        host |-> host]
         ELSE [res |-> "permission_denied", suggested |-> NoPort,
               host |-> host]

OnPortConflict_SetsError(svs, idx) ==
    [svs EXCEPT ![idx].status = Error("Port conflict")]

\* app.rs 314-317: a reported conflict only shows a message
OnPortConflict(svs, idx) == svs

OnDataDirFailure_Ignored(svs, idx) == svs

\* app.rs 319-325: create_dir_all has failed
OnDataDirFailure(svs, idx) ==
    [svs EXCEPT ![idx].status = Error("Failed to create data dir")]

InitialStatus_Running(needs_container) == Running

InitialStatus_AlwaysPulling(needs_container) == Pulling

\* app.rs 344-351: the status Start sets
InitialStatus(needs_container) ==
    IF needs_container THEN Pulling ELSE Starting

FreeSlots == {i \in 1..MaxTasks : tasks[i].pc = "idle"}
Spawn(t) == [tasks EXCEPT ![CHOOSE i \in FreeSlots : \A j \in FreeSlots : i <= j] = t]

\* show_status_message (app.rs 176-179): the notification a handler raises
\* on the way it ends, "" when it raises none
HandlerNotice(op, result) ==
    IF result = "docker_not_connected" THEN "Docker not connected"
    ELSE IF result = "not_found" /\ op # "edit" THEN "Server not found"
    ELSE IF result = "no_container" THEN "Server has no container"
    ELSE IF result = "port_conflict" THEN "Port conflict"
    ELSE IF result = "data_dir_failed" THEN "Failed to create data directory"
    ELSE IF result \in {"saved", "saved_teardown_failed"}
    THEN (IF op = "create" THEN "Server created successfully"
          ELSE IF op = "edit" THEN "Server settings updated"
          ELSE "Server deleted")
    ELSE ""

\* The record of an operation; the handlers of the dashboard count as clicks
Clicks == {"create", "edit", "start", "stop", "delete"}
Op(op, name, result) ==
    [op |-> op, name |-> name, result |-> result, loaded |-> <<>>,
     before |-> IF IndexOf(servers, name) = 0 THEN ""
                ELSE servers[IndexOf(servers, name)].status.tag,
     ops |-> last.ops + (IF op \in Clicks THEN 1 ELSE 0),
     notice |-> HandlerNotice(op, result)]
FirstOp ==
    [op |-> "new", name |-> "", result |-> "loaded", loaded |-> <<>>,
     before |-> "", ops |-> 0, notice |-> ""]

\* save_servers (app.rs 181-185, config.rs 56-67)
Saved(svs) == svs

\* app.rs 243-267
create_server(name, port) ==
    /\ servers' = Append(servers, Instance(name, port))
    /\ disk' = Saved(servers')
    /\ last' = Op("create", name, "saved")
    /\ UNCHANGED <<docker, task_queue, tasks>>

save_server_edit_ResetsStatus(name, port, args_changed) ==
    LET idx == IndexOf(servers, name) IN
    IF idx = 0
    THEN /\ last' = Op("edit", name, "not_found")
         /\ UNCHANGED <<servers, disk, docker, task_queue, tasks>>
    ELSE LET port_changed == servers[idx].port # port IN
         /\ servers' = [servers EXCEPT
                ![idx].port = port,
                ![idx].status = Stopped,
                ![idx].container_id =
                    IF port_changed \/ args_changed THEN NoneC ELSE @]
         /\ disk' = Saved(servers')
         /\ last' = Op("edit", name, "saved")
         /\ UNCHANGED <<docker, task_queue, tasks>>

\* app.rs 276-295
save_server_edit(name, port, args_changed) ==
    LET idx == IndexOf(servers, name) IN
    IF idx = 0
    THEN /\ last' = Op("edit", name, "not_found")
         /\ UNCHANGED <<servers, disk, docker, task_queue, tasks>>
    ELSE LET port_changed == servers[idx].port # port IN
         /\ servers' = [servers EXCEPT
                ![idx].port = port,
                ![idx].container_id =
                    IF port_changed \/ args_changed THEN NoneC ELSE @]
         /\ disk' = Saved(servers')
         /\ last' = Op("edit", name, "saved")
         /\ UNCHANGED <<docker, task_queue, tasks>>

\* app.rs 297-452.  bound: the ports other applications hold on the host at
\* the time of the call.  The ports of this specification are far from 65535
\* and above 1023: no addition overflows and no bind is denied.
start_server(name, bound) ==
    LET idx == IndexOf(servers, name) IN
    IF ~docker
    THEN /\ last' = Op("start", name, "docker_not_connected")
         /\ UNCHANGED <<servers, disk, docker, task_queue, tasks>>
    ELSE IF idx = 0
    THEN /\ last' = Op("start", name, "not_found")
         /\ UNCHANGED <<servers, disk, docker, task_queue, tasks>>
    ELSE IF check_port_conflict(servers, servers[idx].port, name,
                                Host(bound, {}, FALSE), FALSE).res # "none"
    THEN /\ servers' = OnPortConflict(servers, idx)
         /\ last' = Op("start", name, "port_conflict")
         /\ UNCHANGED <<disk, docker, task_queue, tasks>>
    ELSE \E dir_ok \in BOOLEAN :
         IF ~dir_ok
         THEN /\ servers' = OnDataDirFailure(servers, idx)
              /\ last' = Op("start", name, "data_dir_failed")
              /\ UNCHANGED <<disk, docker, task_queue, tasks>>
         ELSE LET needs_container == servers[idx].container_id = NoneC IN
              /\ FreeSlots # {}
              /\ servers' = [servers EXCEPT
                     ![idx].status = InitialStatus(needs_container)]
              /\ tasks' = Spawn(NewStartTask(name, needs_container,
                                             servers[idx].container_id))
              /\ last' = Op("start", name, "spawned")
              /\ UNCHANGED <<disk, docker, task_queue>>

\* app.rs 454-502
stop_server(name) ==
    LET idx == IndexOf(servers, name) IN
    IF ~docker
    THEN /\ last' = Op("stop", name, "docker_not_connected")
         /\ UNCHANGED <<servers, disk, docker, task_queue, tasks>>
    ELSE IF idx = 0
    THEN /\ last' = Op("stop", name, "not_found")
         /\ UNCHANGED <<servers, disk, docker, task_queue, tasks>>
    ELSE IF servers[idx].container_id = NoneC
    THEN /\ last' = Op("stop", name, "no_container")
         /\ UNCHANGED <<servers, disk, docker, task_queue, tasks>>
    ELSE /\ FreeSlots # {}
         /\ servers' = [servers EXCEPT ![idx].status = Stopping]
         /\ tasks' = Spawn(NewStopTask(name, servers[idx].container_id))
         /\ last' = Op("stop", name, "spawned")
         /\ UNCHANGED <<disk, docker, task_queue>>

AfterTeardown_Restores(before, after, remove_ok) ==
    IF remove_ok THEN after ELSE before

\* app.rs 578-587: the table after the teardown of the container, the
\* outcome of which is dropped (let _ =)
AfterTeardown(before, after, remove_ok) == after

\* The results of delete_server that stand for a removed instance
Deleted == {"saved", "saved_teardown_failed"}

\* app.rs 565-592: the container teardown (stop, then remove) is awaited
\* inside the handler; stop_ok and remove_ok are the answers of the service
delete_server(name) ==
    LET idx == IndexOf(servers, name) IN
    IF ~docker
    THEN /\ last' = Op("delete", name, "docker_not_connected")
         /\ UNCHANGED <<servers, disk, docker, task_queue, tasks>>
    ELSE IF idx = 0
    THEN /\ last' = Op("delete", name, "not_found")
         /\ UNCHANGED <<servers, disk, docker, task_queue, tasks>>
    ELSE IF servers[idx].container_id = NoneC
    THEN /\ servers' = RemoveAt(servers, idx)
         /\ disk' = Saved(servers')
         /\ last' = Op("delete", name, "saved")
         /\ UNCHANGED <<docker, task_queue, tasks>>
    ELSE \E stop_ok \in BOOLEAN, remove_ok \in BOOLEAN :
         /\ servers' = AfterTeardown(servers, RemoveAt(servers, idx),
                                     remove_ok)
         /\ disk' = Saved(servers')
         /\ last' = Op("delete", name,
                       IF remove_ok THEN "saved"
                       ELSE "saved_teardown_failed")
         /\ UNCHANGED <<docker, task_queue, tasks>>

ApplyStatus_AddsUnknown(svs, m) ==
    LET idx == IndexOf(svs, m.name) IN
    IF idx = 0
    THEN Append(svs, [Instance(m.name, CHOOSE port \in Ports : TRUE)
                         EXCEPT !.status = m.status,
                                !.container_id = m.container_id])
    ELSE [svs EXCEPT
            ![idx].status = m.status,
            ![idx].container_id =
                IF m.container_id # NoneC THEN m.container_id ELSE @]

ApplyStatus_KeepsStopped(svs, m) ==
    LET idx == IndexOf(svs, m.name) IN
    IF idx = 0 \/ (idx # 0 /\ svs[idx].status = Stopped) THEN svs
    ELSE [svs EXCEPT
            ![idx].status = m.status,
            ![idx].container_id =
                IF m.container_id # NoneC THEN m.container_id ELSE @]

ApplyStatus_TakesHandle(svs, m) ==
    LET idx == IndexOf(svs, m.name) IN
    IF idx = 0 THEN svs
    ELSE [svs EXCEPT ![idx].status = m.status,
                     ![idx].container_id = m.container_id]

ApplyStatus_ToAll(svs, m) ==
    IF svs = <<>> THEN svs
    ELSE [i \in 1..Len(svs) |->
            [svs[i] EXCEPT
                !.status = m.status,
                !.container_id =
                    IF m.container_id # NoneC THEN m.container_id ELSE @]]

\* app.rs 770-782: the notification the reconciliation of m raises
StatusNotice(svs, m) ==
    IF IndexOf(svs, m.name) = 0 THEN ""
    ELSE IF m.status = Running THEN "Server started"
    ELSE IF m.status = Stopped THEN "Server stopped"
    ELSE IF m.status.tag = "Error" THEN m.status.msg
    ELSE ""

\* app.rs 764-769: one ServerStatus message applied to the table
ApplyStatus(svs, m) ==
    LET idx == IndexOf(svs, m.name) IN
    IF idx = 0 THEN svs
    ELSE [svs EXCEPT
            ![idx].status = m.status,
            ![idx].container_id =
                IF m.container_id # NoneC THEN m.container_id ELSE @]

\* app.rs 759-785: one iteration of the drain loop of process_task_messages:
\* try_recv takes the oldest message; a ServerStatus message is applied and
\* the table saved, a Log message leaves the table alone
process_task_messages ==
    /\ task_queue # <<>>
    /\ LET m == Head(task_queue) IN
       IF IsStatusMsg(m)
       THEN /\ servers' = ApplyStatus(servers, m)
            /\ disk' = Saved(servers')
            /\ last' = [Op("reconcile", m.name, "status")
                           EXCEPT !.notice = StatusNotice(servers, m)]
       ELSE /\ last' = Op("reconcile", "", "log")
            /\ UNCHANGED <<servers, disk>>
    /\ task_queue' = Tail(task_queue)
    /\ UNCHANGED <<docker, tasks>>

---------------------------------------------------------------------------
\* Background tasks running on the runtime, inside the orchestrator

\* What of a task's output the table depends on: process_task_messages
\* gives a Log message to the log buffer only, which is not part of this state
Carried(out) == StatusOnly(out)

Advance_Prepends(i, r) ==
    /\ task_queue' = Carried(r.out) \o task_queue
    /\ tasks' = [tasks EXCEPT ![i] = IF r.t.pc = "done" THEN NoTask ELSE r.t]
    /\ last' = Op("task", "", "")
    /\ UNCHANGED <<servers, disk, docker>>

\* A step of the task in slot i: it sends r.out and moves on
Advance(i, r) ==
    /\ task_queue' = task_queue \o Carried(r.out)
    /\ tasks' = [tasks EXCEPT ![i] = IF r.t.pc = "done" THEN NoTask ELSE r.t]
    /\ last' = Op("task", "", "")
    /\ UNCHANGED <<servers, disk, docker>>

UsedIds ==
    {servers[k].container_id : k \in 1..Len(servers)}
        \cup {tasks[k].cid : k \in 1..MaxTasks}

\* The id the container service gives a new container: one no instance and
\* no task holds (which one makes no difference to the program)
FreshId ==
    CHOOSE id \in ContainerIds \ UsedIds :
        \A o \in ContainerIds \ UsedIds : id = o \/ id = "c1"

TaskBeginStep(i) ==
    /\ tasks[i].pc = "spawned"
    /\ Advance(i, TaskBegin(tasks[i]))

EnsureImageStep(i) ==
    /\ tasks[i].pc = "ensure_image"
    /\ \E ok \in BOOLEAN : Advance(i, AfterEnsureImage(tasks[i], ok))

CreateContainerStep(i) ==
    /\ tasks[i].pc = "create_container"
    /\ \/ Advance(i, AfterCreateContainer(tasks[i], FALSE, NoneC))
       \/ /\ ContainerIds \ UsedIds # {}
          /\ Advance(i, AfterCreateContainer(tasks[i], TRUE, FreshId))

StartContainerStep(i) ==
    /\ tasks[i].pc = "start_container"
    /\ \E ok \in BOOLEAN : Advance(i, AfterStartContainer(tasks[i], ok))

\* The iteration of the poller that ends it (app.rs 867-991): the iterations
\* before it send Log messages only and change nothing but the attempt count
PollStep(i) ==
    /\ tasks[i].pc = "poll"
    /\ \E attempt \in {1, max_attempts},
          live \in {"true", "false", "err"},
          probe \in {"online", "offline", "connfail"} :
          LET r == PollIteration([tasks[i] EXCEPT !.attempt = attempt],
                                 live, probe, 0)
          IN  r.t.pc = "done" /\ Advance(i, r)

StopContainerStepWith(i, ok) ==
    /\ tasks[i].pc = "stop_container"
    /\ Advance(i, AfterStopContainer(tasks[i], ok))
StopContainerStep(i) == \E ok \in BOOLEAN : StopContainerStepWith(i, ok)

\* app.rs 78-161: the process is started again; the tasks and the channel of
\* the previous process are gone.  load_servers (config.rs 70-80) may fail.
New ==
    \E connected \in BOOLEAN, load_ok \in BOOLEAN :
        LET read == IF load_ok THEN disk ELSE <<>> IN
        /\ docker' = connected
        /\ servers' = ResetTransient(read)
        /\ task_queue' = <<>>
        /\ tasks' = [i \in 1..MaxTasks |-> NoTask]
        /\ last' = [Op("new", "", IF load_ok THEN "loaded" ELSE "load_failed")
                       EXCEPT !.loaded = read]
        /\ UNCHANGED disk

---------------------------------------------------------------------------
\* The dashboard (src/src/ui/dashboard.rs 168-244): which buttons a server
\* card offers in which status.  update() (app.rs 995-997) drains the
\* channel before it shows the dashboard, so a handler runs on an empty
\* channel.

Shown(name) == IndexOf(servers, name) # 0
StatusTag(name) == servers[IndexOf(servers, name)].status.tag

\* dashboard.rs 180-232: Start, Edit and Delete are offered when Stopped or Error
UiIdle(name) ==
    last.ops < MaxOps /\ task_queue = <<>> /\ Shown(name) /\ StatusTag(name) \in {"Stopped", "Error"}
\* dashboard.rs 169-172: Stop is offered when Running
UiRunning(name) ==
    last.ops < MaxOps /\ task_queue = <<>> /\ Shown(name) /\ StatusTag(name) = "Running"

\* The create view; names are unique among the instances (the user's duty)
UiCreate(name, port) ==
    /\ last.ops < MaxOps /\ task_queue = <<>> /\ ~Shown(name)
    /\ create_server(name, port)
UiEdit(name, port, args_changed) ==
    UiIdle(name) /\ save_server_edit(name, port, args_changed)
UiStart(name, bound) == UiIdle(name) /\ start_server(name, bound)
UiStop(name) == UiRunning(name) /\ stop_server(name)
UiDelete(name) == UiIdle(name) /\ delete_server(name)
\* start_server called with a name the table does not hold: the handler's own
\* lookup (app.rs 304-308) is what answers it
StartUnknown(name) ==
    /\ last.ops < MaxOps /\ task_queue = <<>> /\ ~Shown(name)
    /\ start_server(name, {})

---------------------------------------------------------------------------
InitLife ==
    /\ servers = <<>>
    /\ disk = <<>>
    /\ docker \in BOOLEAN
    /\ task_queue = <<>>
    /\ tasks = [i \in 1..MaxTasks |-> NoTask]
    /\ last = FirstOp

IdleLife ==
    /\ servers = <<>>
    /\ disk = <<>>
    /\ docker = FALSE
    /\ task_queue = <<>>
    /\ tasks = [i \in 1..MaxTasks |-> NoTask]
    /\ last = FirstOp
IdleTask == tk = NoTask /\ trace = <<>>
IdleRcon == rcon = <<>>
IdlePort == net = <<>>
NoHist == hist = <<>>
IdleBackup == backup = <<>>

Init == InitLife /\ IdleTask /\ IdleRcon /\ IdlePort /\ NoHist /\ IdleBackup

\* A step of the orchestrator leaves the other two groups alone
Next ==
    \/ \E name \in Names, port \in Ports :
           UiCreate(name, port) /\ UNCHANGED <<tk, trace, rcon, net, hist, backup>>
    \/ \E name \in Names, port \in Ports, args_changed \in BOOLEAN :
           UiEdit(name, port, args_changed) /\ UNCHANGED <<tk, trace, rcon, net, hist, backup>>
    \/ \E name \in Names, bound \in SUBSET Ports :
           UiStart(name, bound) /\ UNCHANGED <<tk, trace, rcon, net, hist, backup>>
    \/ \E name \in Names : StartUnknown(name) /\ UNCHANGED <<tk, trace, rcon, net, hist, backup>>
    \/ \E name \in Names : UiStop(name) /\ UNCHANGED <<tk, trace, rcon, net, hist, backup>>
    \/ \E name \in Names : UiDelete(name) /\ UNCHANGED <<tk, trace, rcon, net, hist, backup>>
    \/ process_task_messages /\ UNCHANGED <<tk, trace, rcon, net, hist, backup>>
    \/ \E i \in 1..MaxTasks : TaskBeginStep(i) /\ UNCHANGED <<tk, trace, rcon, net, hist, backup>>
    \/ \E i \in 1..MaxTasks : EnsureImageStep(i) /\ UNCHANGED <<tk, trace, rcon, net, hist, backup>>
    \/ \E i \in 1..MaxTasks : CreateContainerStep(i) /\ UNCHANGED <<tk, trace, rcon, net, hist, backup>>
    \/ \E i \in 1..MaxTasks : StartContainerStep(i) /\ UNCHANGED <<tk, trace, rcon, net, hist, backup>>
    \/ \E i \in 1..MaxTasks : PollStep(i) /\ UNCHANGED <<tk, trace, rcon, net, hist, backup>>
    \/ \E i \in 1..MaxTasks : StopContainerStep(i) /\ UNCHANGED <<tk, trace, rcon, net, hist, backup>>
    \/ New /\ UNCHANGED <<tk, trace, rcon, net, hist, backup>>

Spec == Init /\ [][Next]_vars

---------------------------------------------------------------------------
\* Properties of the orchestrator (checked under Spec)

TagOf(svs, name) == svs[IndexOf(svs, name)].status.tag

\* The edges of the status model as the specification lists them
ListedEdges ==
    {<<"Stopped", "Pulling">>, <<"Stopped", "Starting">>,
     <<"Pulling", "Starting">>, <<"Pulling", "Error">>,
     <<"Starting", "Initializing">>, <<"Starting", "Error">>,
     <<"Initializing", "Running">>, <<"Initializing", "Error">>,
     <<"Running", "Stopping">>,
     <<"Stopping", "Stopped">>, <<"Stopping", "Error">>}
\* The edges a Start of a failed instance adds
RestartEdges == {<<"Error", "Pulling">>, <<"Error", "Starting">>}

\* Every instance the step keeps changes its status along an edge of E, or to
\* Error, or not at all
AlongEdges(E) ==
    \A n \in Names :
        (IndexOf(servers, n) # 0 /\ IndexOf(servers', n) # 0) =>
            LET b == TagOf(servers, n)
                a == TagOf(servers', n)
            IN  b = a \/ a = "Error" \/ <<b, a>> \in E

IsLifecycleStep == last'.op \in {"start", "stop", "reconcile"}

\* C1 as stated: every step of Start, Stop or Reconcile moves every instance
\* along one of the listed edges (or to Error).  Refuted: Start of an
\* instance in Error takes it to Pulling or Starting.
C1_AsStated == [][IsLifecycleStep => AlongEdges(ListedEdges)]_vars

\* C1 (amended): every step of Start, Stop or Reconcile moves every instance
\* along one of the listed edges, or from Error to Pulling or Starting (a
\* fresh Start of a failed instance), or to Error; in particular never from
\* Stopped to Running nor from Running to Pulling.
C1_Transitions ==
    [][IsLifecycleStep => AlongEdges(ListedEdges \cup RestartEdges)]_vars

\* A failed instance has just been started again and is Pulling
C1_Witness ==
    /\ last.op = "start" /\ last.result = "spawned"
    /\ last.before = "Error"
    /\ TagOf(servers, last.name) = "Pulling"

\* C3: right after DrakonixApp::new has loaded the persisted instances, each
\* instance loaded as Pulling, Starting, Initializing or Stopping is Stopped,
\* and each instance loaded as Stopped, Running or Error has the status it
\* was loaded with.
C3_RestartNormalises ==
    last.op = "new" =>
        /\ Len(servers) = Len(last.loaded)
        /\ \A i \in 1..Len(last.loaded) :
              LET was == last.loaded[i].status IN
              /\ was.tag \in {"Pulling", "Starting", "Initializing", "Stopping"}
                    => servers[i].status = Stopped
              /\ was.tag \in {"Stopped", "Running", "Error"}
                    => servers[i].status = was

\* A restart that found one instance Initializing and another Running
C3_Witness ==
    /\ last.op = "new"
    /\ \E i, j \in 1..Len(last.loaded) :
          /\ last.loaded[i].status = Initializing /\ servers[i].status = Stopped
          /\ last.loaded[j].status = Running /\ servers[j].status = Running

StartRejections == {"docker_not_connected", "not_found", "port_conflict"}

\* C4: a Start rejected because the container service is not connected, the
\* name is unknown or a port conflict is reported changes no instance (status
\* and container handle included), sends no task message and spawns no task.
C4_RejectedStartChangesNothing ==
    [][(last'.op = "start" /\ last'.result \in StartRejections)
          => UNCHANGED <<servers, task_queue, tasks>>]_vars

\* A Start has just been rejected for a port another active instance holds
C4_Witness ==
    /\ last.op = "start" /\ last.result = "port_conflict"
    /\ IndexOf(servers, last.name) # 0
    /\ InternalConflict(servers, servers[IndexOf(servers, last.name)].port,
                        last.name)

---------------------------------------------------------------------------
\* SpecTask: the background task start_server spawns (app.rs 354-451),
\* followed from its first statement to its return, the answers of the
\* container service and of the probe chosen freely at each call.
\* trace records what the task sent and which calls it made:
\*   sent        the ServerStatus messages, in order
\*   first       the type of the first message sent
\*   lastLog     the text of the last Log message sent
\*   created     the id create_minecraft_container returned
\*   pollFrom    Len(sent) when poll_mc_server_ready was entered, -1 before
\*   nLive       calls of is_container_running, firstLive the first answer,
\*               liveAllTrue whether all answered Ok(true), exited whether
\*               one answered Ok(false)
\*   nProbe      calls of ping, onlineAt the attempt that answered online
\*   calls       the calls of ensure_image, create_minecraft_container and
\*               start_container made, in order; failed, the one of them
\*               that answered with an error
\*   iter        the last iteration of the poller: the attempt, the answers
\*               of the liveness check and of the probe, whether the probe
\*               was made, and the messages the iteration sent

NoIter ==
    [attempt |-> 0, live |-> "", probe |-> "", probed |-> FALSE, out |-> <<>>]

NoTrace ==
    [sent |-> <<>>, first |-> "", lastLog |-> "", created |-> NoneC,
     pollFrom |-> -1, nLive |-> 0, nProbe |-> 0, firstLive |-> "",
     liveAllTrue |-> TRUE, exited |-> FALSE, onlineAt |-> 0,
     calls |-> <<>>, failed |-> "", iter |-> NoIter]

\* trace after the call of the container service has answered
Called(tr, call, ok) ==
    [tr EXCEPT !.calls = Append(@, call),
               !.failed = IF ok THEN @ ELSE call]

\* trace after the messages out have gone to the channel
Sent(tr, out) ==
    [tr EXCEPT !.sent = @ \o StatusOnly(out),
               !.first = IF @ = "" /\ out # <<>> THEN Head(out).type ELSE @,
               !.lastLog = LastLog(out, @)]

\* app.rs 343-354: the task as start_server spawns it, for an instance
\* without a container handle or with one
InitTask ==
    /\ IdleLife /\ IdleRcon /\ IdlePort /\ NoHist /\ IdleBackup
    /\ tk \in {NewStartTask("a", TRUE, NoneC)}
               \cup {NewStartTask("a", FALSE, id) : id \in ContainerIds}
    /\ trace = NoTrace

TBegin ==
    /\ tk.pc = "spawned"
    /\ LET r == TaskBegin(tk) IN
       tk' = r.t /\ trace' = Sent(trace, r.out)

TEnsureImage ==
    /\ tk.pc = "ensure_image"
    /\ \E ok \in BOOLEAN :
          LET r == AfterEnsureImage(tk, ok) IN
          /\ tk' = r.t
          /\ trace' = Called(Sent(trace, r.out), "ensure_image", ok)

TCreateContainer ==
    /\ tk.pc = "create_container"
    /\ \E ok \in BOOLEAN, id \in ContainerIds :
          LET r == AfterCreateContainer(tk, ok, id) IN
          /\ tk' = r.t
          /\ trace' = [Called(Sent(trace, r.out), "create_container", ok)
                          EXCEPT !.created = IF ok THEN id ELSE @]

TStartContainer ==
    /\ tk.pc = "start_container"
    /\ \E ok \in BOOLEAN :
          LET r == AfterStartContainer(tk, ok)
              tr == Called(Sent(trace, r.out), "start_container", ok)
          IN  /\ tk' = r.t
              /\ trace' = [tr EXCEPT
                              !.pollFrom = IF ok THEN Len(tr.sent) ELSE @]

TPoll ==
    /\ tk.pc = "poll"
    /\ \E live \in {"true", "false", "err"},
          probe \in {"online", "offline", "connfail"},
          extra \in 0..MaxExtra :
          LET r == PollIteration(tk, live, probe, extra) IN
          /\ tk' = r.t
          /\ trace' = [Sent(trace, r.out) EXCEPT
                 !.nLive = @ + 1,
                 !.firstLive = IF trace.nLive = 0 THEN live ELSE @,
                 !.liveAllTrue = @ /\ live = "true",
                 !.exited = @ \/ live = "false",
                 !.nProbe = @ + (IF r.probed THEN 1 ELSE 0),
                 !.onlineAt = IF r.probed /\ probe = "online" /\ @ = 0
                              THEN tk.attempt ELSE @,
                 !.iter = [attempt |-> tk.attempt, live |-> live,
                           probe |-> IF r.probed THEN probe ELSE "",
                           probed |-> r.probed, out |-> r.out]]

NextTask ==
    \/ TBegin /\ UNCHANGED <<lifeVars, rcon, net, hist, backup>>
    \/ TEnsureImage /\ UNCHANGED <<lifeVars, rcon, net, hist, backup>>
    \/ TCreateContainer /\ UNCHANGED <<lifeVars, rcon, net, hist, backup>>
    \/ TStartContainer /\ UNCHANGED <<lifeVars, rcon, net, hist, backup>>
    \/ TPoll /\ UNCHANGED <<lifeVars, rcon, net, hist, backup>>

SpecTask == InitTask /\ [][NextTask]_vars

\* The ServerStatus messages the poller has sent
PollSent == SubSeq(trace.sent, trace.pollFrom + 1, Len(trace.sent))
Polled == trace.pollFrom >= 0
TaskDone == tk.pc = "done"

\* C2: a Start task of an instance without a container handle whose
\* ensure_image, create, start and probe all succeeded has sent a Log message
\* first and exactly three ServerStatus messages, in this order: Starting
\* without handle, Initializing with the id create returned, Running with
\* the same id; everything else it sent is a Log message.
C2_StartSequence ==
    (TaskDone /\ tk.needs /\ trace.onlineAt # 0) =>
        /\ trace.first = "Log"
        /\ trace.created # NoneC
        /\ trace.sent = <<StatusMsg(tk.name, Starting, NoneC),
                          StatusMsg(tk.name, Initializing, trace.created),
                          StatusMsg(tk.name, Running, trace.created)>>

\* The task of an instance without handle has reported Running
C2_Witness ==
    /\ TaskDone /\ tk.needs /\ trace.onlineAt # 0
    /\ Len(trace.sent) = 3 /\ trace.sent[3].status = Running

\* C5: when the first liveness check answers Ok(false), the poller has made
\* that one check and no probe, has sent exactly one ServerStatus message,
\* Error("Container exited unexpectedly"), and has returned.
C5_ExitedOnFirstCheck ==
    trace.firstLive = "false" =>
        /\ TaskDone
        /\ trace.nLive = 1 /\ trace.nProbe = 0
        /\ PollSent = <<StatusMsg(tk.name,
                                  Error("Container exited unexpectedly"), tk.cid)>>

\* The first liveness check has answered Ok(false)
C5_Witness ==
    /\ trace.firstLive = "false" /\ trace.nLive = 1 /\ TaskDone

\* C6: when every liveness check answered running and the probe first
\* answered online on attempt k, the poller has made exactly k probes and k
\* liveness checks, has sent exactly one ServerStatus message, Running, and
\* has returned (so it makes no call after it).
C6_OnlineAtK ==
    (trace.onlineAt # 0 /\ trace.liveAllTrue) =>
        /\ TaskDone
        /\ trace.onlineAt \in 1..max_attempts
        /\ trace.nProbe = trace.onlineAt /\ trace.nLive = trace.onlineAt
        /\ PollSent = <<StatusMsg(tk.name, Running, tk.cid)>>

\* The probe first answered online on the third attempt
C6_Witness ==
    /\ trace.onlineAt = 3 /\ trace.liveAllTrue /\ trace.nProbe = 3 /\ TaskDone

\* C7: when the poller has returned without a probe answering online and
\* without a liveness check answering Ok(false), it has made exactly 120
\* iterations (120 liveness checks and 120 probes) and has sent no
\* ServerStatus message: the last status the task reported is Initializing,
\* and the last thing it sent is the log line about the long initialization.
C7_ExhaustedSilently ==
    (TaskDone /\ Polled /\ trace.onlineAt = 0 /\ ~trace.exited) =>
        /\ trace.nLive = max_attempts /\ trace.nProbe = max_attempts
        /\ PollSent = <<>>
        /\ trace.sent[Len(trace.sent)].status = Initializing
        /\ trace.lastLog = "still initializing after 10 minutes"

\* The poller has used up its 120 attempts
C7_Witness ==
    /\ TaskDone /\ Polled /\ trace.onlineAt = 0 /\ ~trace.exited
    /\ trace.nProbe = max_attempts

\* How often the task has made the call
TimesCalled(call) ==
    Cardinality({i \in 1..Len(trace.calls) : trace.calls[i] = call})
\* The cause the task reports when the call fails
CauseOf(call) ==
    IF call = "ensure_image" THEN "Failed to pull image"
    ELSE IF call = "create_container" THEN "Failed to create container"
    ELSE "Failed to start container"

\* C24: a Start task calls each of ensure_image, create_container and
\* start_container at most once; when one of them has failed, the task has
\* returned, that call is the last it made, the poller was not entered (no
\* liveness check and no probe), and of the ServerStatus messages it sent
\* exactly one carries Error, the last one, with the cause of that call.
C24_FailsOnceAndReturns ==
    /\ \A call \in {"ensure_image", "create_container", "start_container"} :
          TimesCalled(call) <= 1
    /\ trace.failed # "" =>
          /\ TaskDone
          /\ trace.calls[Len(trace.calls)] = trace.failed
          /\ ~Polled /\ trace.nLive = 0 /\ trace.nProbe = 0
          /\ trace.sent # <<>>
          /\ trace.sent[Len(trace.sent)].status = Error(CauseOf(trace.failed))
          /\ \A i \in 1..(Len(trace.sent) - 1) :
                trace.sent[i].status.tag # "Error"

\* The image was there, create_container failed: the task has sent Starting
\* and one Error and has returned without a call of start_container
C24_Witness ==
    /\ trace.failed = "create_container" /\ TaskDone
    /\ trace.calls = <<"ensure_image", "create_container">>
    /\ trace.sent =
          <<StatusMsg(tk.name, Starting, NoneC),
            StatusMsg(tk.name, Error("Failed to create container"), NoneC)>>

\* C27: an iteration of the poller whose liveness check answered with an
\* error has sent the log line about it first, has made the probe all the
\* same, and has sent no ServerStatus message except Running when that probe
\* answered online; unless the probe answered online or the attempts are
\* used up, the poller goes on with the next attempt.  An iteration ends the
\* polling without a probe if and only if the liveness check answered
\* Ok(false).
C27_LivenessErrorContinues ==
    /\ trace.iter.live = "err" =>
          /\ trace.iter.out # <<>>
          /\ Head(trace.iter.out) = LogMsg("Failed to check container status")
          /\ trace.iter.probed
          /\ StatusOnly(trace.iter.out) =
                IF trace.iter.probe = "online"
                THEN <<StatusMsg(tk.name, Running, tk.cid)>> ELSE <<>>
          /\ (trace.iter.probe # "online"
                /\ trace.iter.attempt < max_attempts) =>
                tk.pc = "poll" /\ tk.attempt = trace.iter.attempt + 1
    /\ trace.iter.live # "" =>
          (trace.iter.live = "false" <=> (TaskDone /\ ~trace.iter.probed))

\* The liveness check of the second iteration answered with an error, the
\* probe of that iteration answered offline: the poller is at attempt 3
C27_Witness ==
    /\ trace.iter.live = "err" /\ trace.iter.attempt = 2
    /\ trace.iter.probed /\ trace.iter.probe = "offline"
    /\ trace.iter.out = <<LogMsg("Failed to check container status")>>
    /\ tk.pc = "poll" /\ tk.attempt = 3

---------------------------------------------------------------------------
\* The operations of the orchestrator called in any state, as Start(name),
\* Stop(name) and Delete(name) may be: no dashboard stands between the caller
\* and the handler.  One instance name, one port.
\*   hist.received  the status of the last ServerStatus message reconciled
\*                  for the name, NoStatus before the first
\*   hist.race      the last call was a Stop that spawned its task while a
\*                  Start task for the name was in flight
\*   hist.stopped   how stop_container answered the last Stop task, and
\*   hist.stop_sent the ServerStatus messages that task sent
\*   hist.deleted   delete_server has removed the name and create_server has
\*                  not been called since
\*   hist.made      the containers that Start tasks have created in the
\*                  container service and that no teardown has removed
\*   hist.cut       Delete has removed the instance while it was Pulling,
\*                  without a handle, and its Start task was in flight
\*   hist.alone     the last Stop that spawned its task found no other task in
\*                  flight and no message waiting in the channel, and neither
\*                  Start nor Delete has been called since
\*   hist.settled   the Stopped message of a Stop task has been reconciled
\*                  for the instance and neither Start nor Stop nor Delete
\*                  has been called since

CoreName == "a"
CorePort == 25565
NoStatus == St("none")

NoHistory ==
    [received |-> NoStatus, race |-> FALSE, stopped |-> "none",
     stop_sent |-> <<>>, deleted |-> FALSE, alone |-> FALSE,
     settled |-> FALSE, made |-> {}, cut |-> FALSE]

InitCore ==
    /\ InitLife /\ IdleTask /\ IdleRcon /\ IdlePort /\ IdleBackup
    /\ hist = NoHistory

InFlight(kind, name) ==
    \E i \in 1..MaxTasks : tasks[i].kind = kind /\ tasks[i].name = name

CoreCreate ==
    /\ last.ops < MaxCoreOps /\ ~Shown(CoreName)
    /\ create_server(CoreName, CorePort)
    /\ hist' = [hist EXCEPT !.race = FALSE, !.deleted = FALSE]

CoreEdit(args_changed) ==
    /\ last.ops < MaxCoreOps
    /\ save_server_edit(CoreName, CorePort, args_changed)
    /\ hist' = [hist EXCEPT !.race = FALSE]

CoreStart(bound) ==
    /\ last.ops < MaxCoreOps
    /\ start_server(CoreName, bound)
    /\ hist' = [hist EXCEPT !.race = FALSE, !.alone = FALSE,
                            !.settled = FALSE]

CoreStop ==
    /\ last.ops < MaxCoreOps
    /\ stop_server(CoreName)
    /\ hist' = [hist EXCEPT !.race = /\ last'.result = "spawned"
                                     /\ InFlight("start", CoreName),
                            !.alone = /\ last'.result = "spawned"
                                      /\ task_queue = <<>>
                                      /\ \A i \in 1..MaxTasks :
                                             tasks[i] = NoTask,
                            !.settled = FALSE]

\* The handle the table holds for the name before the step
HandleBefore(name) ==
    IF IndexOf(servers, name) = 0 THEN NoneC
    ELSE servers[IndexOf(servers, name)].container_id

CoreDelete ==
    /\ last.ops < MaxCoreOps
    /\ delete_server(CoreName)
    /\ hist' = [hist EXCEPT
                   !.race = FALSE, !.alone = FALSE, !.settled = FALSE,
                   !.deleted = @ \/ last'.result \in Deleted,
                   !.made = IF last'.result = "saved"
                            THEN @ \ {HandleBefore(CoreName)} ELSE @,
                   !.cut = @ \/ /\ last'.result = "saved"
                                /\ InFlight("start", CoreName)
                                /\ HandleBefore(CoreName) = NoneC
                                /\ servers[IndexOf(servers, CoreName)].status
                                      = Pulling]

CoreReconcile ==
    /\ process_task_messages
    /\ hist' = IF IsStatusMsg(Head(task_queue))
                    /\ Head(task_queue).name = CoreName
               THEN [hist EXCEPT
                        !.received = Head(task_queue).status,
                        !.settled = @ \/ (Shown(CoreName)
                                            /\ Head(task_queue).status = Stopped)]
               ELSE hist

CoreStopContainerStep(i) ==
    \E ok \in BOOLEAN :
        /\ StopContainerStepWith(i, ok)
        /\ hist' = [hist EXCEPT
                       !.stopped = IF ok THEN "ok" ELSE "failed",
                       !.stop_sent =
                           StatusOnly(AfterStopContainer(tasks[i], ok).out)]

CoreNew == New /\ hist' = [hist EXCEPT !.race = FALSE]

\* create_minecraft_container answers a Start task: on success the service
\* holds one more container, under an id it has not given out before
CoreCreateContainerStep(i) ==
    /\ tasks[i].pc = "create_container"
    /\ \/ /\ Advance(i, AfterCreateContainer(tasks[i], FALSE, NoneC))
          /\ UNCHANGED hist
       \/ LET free == ContainerIds \ (UsedIds \cup hist.made) IN
          /\ free # {}
          /\ LET id == CHOOSE id \in free :
                          \A o \in free : id = o \/ id = "c1" IN
             /\ Advance(i, AfterCreateContainer(tasks[i], TRUE, id))
             /\ hist' = [hist EXCEPT !.made = @ \cup {id}]

\* The steps of one run of the program
NextCoreRun ==
    \/ CoreCreate /\ UNCHANGED <<tk, trace, rcon, net, backup>>
    \/ \E args_changed \in BOOLEAN :
           CoreEdit(args_changed) /\ UNCHANGED <<tk, trace, rcon, net, backup>>
    \/ \E bound \in SUBSET {CorePort} :
           CoreStart(bound) /\ UNCHANGED <<tk, trace, rcon, net, backup>>
    \/ CoreStop /\ UNCHANGED <<tk, trace, rcon, net, backup>>
    \/ CoreDelete /\ UNCHANGED <<tk, trace, rcon, net, backup>>
    \/ CoreReconcile /\ UNCHANGED <<tk, trace, rcon, net, backup>>
    \/ \E i \in 1..MaxTasks :
           TaskBeginStep(i) /\ UNCHANGED <<tk, trace, rcon, net, hist, backup>>
    \/ \E i \in 1..MaxTasks :
           EnsureImageStep(i) /\ UNCHANGED <<tk, trace, rcon, net, hist, backup>>
    \/ \E i \in 1..MaxTasks :
           CoreCreateContainerStep(i) /\ UNCHANGED <<tk, trace, rcon, net, backup>>
    \/ \E i \in 1..MaxTasks :
           StartContainerStep(i) /\ UNCHANGED <<tk, trace, rcon, net, hist, backup>>
    \/ \E i \in 1..MaxTasks :
           PollStep(i) /\ UNCHANGED <<tk, trace, rcon, net, hist, backup>>
    \/ \E i \in 1..MaxTasks :
           CoreStopContainerStep(i) /\ UNCHANGED <<tk, trace, rcon, net, backup>>

\* and the start of a new process, which ends every task of the old one
NextCore ==
    \/ NextCoreRun
    \/ CoreNew /\ UNCHANGED <<tk, trace, rcon, net, backup>>

SpecCore == InitCore /\ [][NextCore]_vars

\* The step of task i that is due (a task is at one place at a time)
CoreTaskStep(i) ==
    LET others == <<tk, trace, rcon, net, backup>> IN
    \/ TaskBeginStep(i) /\ UNCHANGED <<others, hist>>
    \/ EnsureImageStep(i) /\ UNCHANGED <<others, hist>>
    \/ CoreCreateContainerStep(i) /\ UNCHANGED others
    \/ StartContainerStep(i) /\ UNCHANGED <<others, hist>>
    \/ PollStep(i) /\ UNCHANGED <<others, hist>>
    \/ CoreStopContainerStep(i) /\ UNCHANGED others

\* The scheduling of one run of the program: the runtime goes on polling every
\* spawned task whose awaited call has answered (weak fairness of each task
\* step), and egui goes on calling update, hence process_task_messages
\* (app.rs 995-997), as long as an instance is in a transient status, because
\* update then asks for a repaint within 100 ms (836-844, 1053-1055).
\* Nothing obliges the user to click, nor the program to be started again.
FairCore ==
    /\ WF_vars(CoreReconcile /\ UNCHANGED <<tk, trace, rcon, net, backup>>)
    /\ \A i \in 1..MaxTasks : WF_vars(CoreTaskStep(i))

SpecCoreFair == InitCore /\ [][NextCoreRun]_vars /\ FairCore

\* This step is a call of the handler op on the name
IsCall(op) == last'.op = op /\ last'.ops = last.ops + 1
\* The handle of the name in the table, NoneC also when the name is unknown
HandleOf(svs, name) ==
    IF IndexOf(svs, name) = 0 THEN NoneC
    ELSE svs[IndexOf(svs, name)].container_id
\* This step has spawned a Stop task for the name and its handle
SpawnsStopTask ==
    \E i \in 1..MaxTasks :
        /\ tasks[i] = NoTask
        /\ tasks' = [tasks EXCEPT
                        ![i] = NewStopTask(CoreName,
                                           HandleOf(servers, CoreName))]
\* What a finished Stop task has sent: one ServerStatus message for the name,
\* Stopped if stop_container succeeded and Error if it failed
StopTaskReports ==
    hist.stopped # "none" =>
        /\ Len(hist.stop_sent) = 1
        /\ hist.stop_sent[1].name = CoreName
        /\ hist.stop_sent[1].status =
              IF hist.stopped = "ok" THEN Stopped ELSE Error("Failed to stop")

\* C17 as stated: Stop on an instance without container handle leaves the
\* status as it is and spawns no task; Stop on an instance with a handle sets
\* the status Stopping and spawns a task, which sends exactly one
\* ServerStatus message for the name, Stopped if the stop call succeeded and
\* Error if not.
\* Refuted: without a connection to the container service Stop does nothing.
C17_AsStated ==
    /\ [][(IsCall("stop") /\ Shown(CoreName)) =>
            IF HandleOf(servers, CoreName) = NoneC
            THEN UNCHANGED <<servers, tasks, task_queue>>
            ELSE /\ TagOf(servers', CoreName) = "Stopping"
                 /\ SpawnsStopTask]_vars
    /\ []StopTaskReports

\* C17 (amended): the same, for an instance with a handle when the container
\* service is connected; when it is not connected Stop changes nothing.
C17_Stop ==
    /\ [][(IsCall("stop") /\ Shown(CoreName)) =>
            IF HandleOf(servers, CoreName) = NoneC \/ ~docker
            THEN UNCHANGED <<servers, disk, tasks, task_queue>>
            ELSE /\ TagOf(servers', CoreName) = "Stopping"
                 /\ servers' = [servers EXCEPT
                        ![IndexOf(servers, CoreName)].status = Stopping]
                 /\ SpawnsStopTask
                 /\ UNCHANGED <<disk, task_queue>>]_vars
    /\ []StopTaskReports

C19_DeletedStaysDeleted ==
    hist.deleted =>
        IndexOf(servers, CoreName) = 0 /\ IndexOf(disk, CoreName) = 0

\* A ServerStatus message that the Start task of the deleted name sent has
\* been reconciled after the Delete
C19_Witness ==
    /\ hist.deleted
    /\ last.op = "reconcile" /\ last.name = CoreName
    /\ hist.received \in {Initializing, Running}

\* No task runs and the channel is empty
Quiet == task_queue = <<>> /\ \A i \in 1..MaxTasks : tasks[i] = NoTask

\* C20: when Stop is called while a Start task of the name is in flight, both
\* tasks run on (right after the call the Start task and the new Stop task
\* are both in flight), and once both have ended and every message is
\* reconciled, the status of the instance is the status of the ServerStatus
\* message reconciled last for the name.
C20_LastMessageWins ==
    /\ (hist.race /\ last.op = "stop") =>
          InFlight("start", CoreName) /\ InFlight("stop", CoreName)
    /\ (hist.race /\ Quiet) =>
          /\ Shown(CoreName)
          /\ hist.received # NoStatus
          /\ servers[IndexOf(servers, CoreName)].status = hist.received

\* Stop was called while the Start task polled; the Stop task reported
\* Stopped, the poller reported Running after it: the instance is Running
C20_Witness ==
    /\ hist.race /\ Quiet
    /\ hist.stopped = "ok" /\ hist.received = Running
    /\ TagOf(servers, CoreName) = "Running"

\* The instance is in the table with a status Error
InError == Shown(CoreName) /\ TagOf(servers, CoreName) = "Error"
StatusOf(svs, name) == svs[IndexOf(svs, name)].status
\* The step keeps the instance, its status and the message of the status
KeepsStatus ==
    /\ IndexOf(servers', CoreName) # 0
    /\ StatusOf(servers', CoreName) = StatusOf(servers, CoreName)

\* C23 as stated: an instance in Error keeps the status and its message under
\* every operation other than Start on it and under every reconciled message
\* (Delete, which removes the instance, and a new start of the program set
\* aside); Start takes it to Pulling or Starting or leaves it in Error.
\* Refuted: Stop takes an instance in Error that has a container handle to
\* Stopping, and a message of a task still in flight overwrites the status.
C23_AsStated ==
    [][InError =>
          IF IsCall("start")
          THEN /\ IndexOf(servers', CoreName) # 0
               /\ TagOf(servers', CoreName) \in {"Pulling", "Starting", "Error"}
          ELSE (IsCall("delete") \/ last'.op = "new") \/ KeepsStatus]_vars

\* C23 (amended): within one run of the program an instance in Error keeps
\* the status and its message under every step but these: Start on it that
\* is not rejected (to Pulling without handle, to Starting with one, to Error
\* with the cause when the data directory cannot be created); Stop on it
\* when it has a handle and the service is connected (to Stopping); the
\* reconciliation of a ServerStatus message for its name (to the status of
\* the message); Delete when the service is connected (the instance is gone).
C23_ErrorKept ==
    [][InError =>
          \/ KeepsStatus
          \/ /\ IsCall("start") /\ docker
             /\ IndexOf(servers', CoreName) # 0
             /\ StatusOf(servers', CoreName) \in
                   {IF HandleOf(servers, CoreName) = NoneC THEN Pulling
                    ELSE Starting,
                    Error("Failed to create data dir")}
          \/ /\ IsCall("stop") /\ docker /\ HandleOf(servers, CoreName) # NoneC
             /\ IndexOf(servers', CoreName) # 0
             /\ StatusOf(servers', CoreName) = Stopping
          \/ /\ last'.op = "reconcile" /\ last'.name = CoreName
             /\ IndexOf(servers', CoreName) # 0
             /\ StatusOf(servers', CoreName) = Head(task_queue).status
          \/ IsCall("delete") /\ docker /\ IndexOf(servers', CoreName) = 0
          \/ last'.op = "new"]_vars

\* Stop has just been called on an instance in Error that has a container
\* handle: the instance is Stopping
C23_Witness ==
    /\ last.op = "stop" /\ last.result = "spawned" /\ last.before = "Error"
    /\ Shown(CoreName) /\ TagOf(servers, CoreName) = "Stopping"

\* C25: in every state an instance whose status is Pulling has no container
\* handle; a Start that spawns its task sets Pulling when the instance has no
\* handle and Starting when it has one; and no reconciled message gives an
\* instance a handle and leaves it Pulling.
C25_PullingHasNoHandle ==
    /\ [](\A i \in 1..Len(servers) :
             servers[i].status = Pulling => servers[i].container_id = NoneC)
    /\ [][(IsCall("start") /\ last'.result = "spawned") =>
             /\ IndexOf(servers', CoreName) # 0
             /\ StatusOf(servers', CoreName) =
                   IF HandleOf(servers, CoreName) = NoneC THEN Pulling
                   ELSE Starting]_vars
    /\ [][(last'.op = "reconcile" /\ IndexOf(servers', CoreName) # 0
             /\ HandleOf(servers', CoreName) # HandleOf(servers, CoreName)) =>
             StatusOf(servers', CoreName) # Pulling]_vars

\* Start was called again while the first Start task went on; the message
\* of that task which carries the new handle has been reconciled for the
\* instance, Pulling until then: it is Initializing and has the handle
C25_Witness ==
    /\ last.op = "reconcile" /\ last.name = CoreName
    /\ last.before = "Pulling"
    /\ Shown(CoreName) /\ TagOf(servers, CoreName) = "Initializing"
    /\ HandleOf(servers, CoreName) = "c1"

\* C31 as stated: once the Stopped message of a Stop task has been
\* reconciled, the instance is Stopped until Start (or Stop or Delete) is
\* called on it again, also when a Start task of the instance was in flight
\* at the time of the Stop.
\* Refuted: the poller of that Start task goes on and its report, Running or
\* Error, replaces Stopped.
C31_StoppedStaysStopped ==
    (hist.settled /\ Shown(CoreName)) => TagOf(servers, CoreName) = "Stopped"

\* C31 as the code has it: the same for a Stop issued while no other task of
\* the instance was in flight and no message waited in the channel
C31_StoppedKept ==
    (hist.settled /\ hist.alone /\ Shown(CoreName))
        => TagOf(servers, CoreName) = "Stopped"

\* The Stopped message of a Stop issued with nothing else in flight has been
\* reconciled, and the program has been started again since
C31_Witness ==
    /\ hist.settled /\ hist.alone /\ Shown(CoreName)
    /\ last.op = "new" /\ last.result = "loaded"
    /\ TagOf(servers, CoreName) = "Stopped"

\* The containers in the service that no instance of the table tracks
Untracked ==
    {c \in hist.made : \A k \in 1..Len(servers) : servers[k].container_id # c}

\* C32: Delete of an instance that is Pulling, without a handle, while its
\* Start task is in flight leaves no container behind: once no Start task is
\* in flight any more, every container that exists in the service is the
\* handle of an instance in the table.
\* Refuted: the Start task is not cancelled and goes on to create and start
\* its container, and its messages name an instance that is gone.
C32_NoContainerLeftBehind ==
    (hist.cut /\ ~InFlight("start", CoreName)) => Untracked = {}

\* A Delete of that kind has happened and the Start task has ended
DeletedWhilePulling ==
    hist.cut /\ ~InFlight("start", CoreName) /\ task_queue = <<>>

\* The call just made was a Stop that set Stopping and spawned its task
StopAccepted == last.op = "stop" /\ last.result = "spawned"

\* C34: every accepted Stop is eventually followed by the status Stopped or
\* Error of the instance, when the stop call answers and the reconciliation
\* keeps being invoked, unless the instance is deleted: within one run of
\* the program the instance does not stay Stopping forever.
C34_StopSettles ==
    StopAccepted ~>
        \/ ~Shown(CoreName)
        \/ TagOf(servers, CoreName) \in {"Stopped", "Error"}

\* The Stopped message of a Stop issued while the Start task was polling has
\* just been reconciled
C34_Witness ==
    /\ last.op = "reconcile" /\ hist.settled /\ hist.race
    /\ Shown(CoreName) /\ TagOf(servers, CoreName) = "Stopped"

\* The call just made was a Start that set Pulling or Starting and spawned
\* its task
StartAccepted == last.op = "start" /\ last.result = "spawned"

\* C35: every accepted Start is eventually followed by the status
\* Initializing, Running or Error of the instance, when every call of the
\* container service answers and the reconciliation keeps being invoked,
\* unless the instance is deleted: within one run of the program the
\* instance stays neither Pulling nor Starting forever.
C35_StartSettles ==
    StartAccepted ~>
        \/ ~Shown(CoreName)
        \/ TagOf(servers, CoreName) \in {"Initializing", "Running", "Error"}

\* The Initializing message of a Start task that created its container has
\* just been reconciled
C35_Witness ==
    /\ last.op = "reconcile" /\ hist.made # {}
    /\ Shown(CoreName) /\ TagOf(servers, CoreName) = "Initializing"
    /\ HandleOf(servers, CoreName) \in hist.made

\* C36: the reconciliation of a ServerStatus message never clears a
\* container handle: a message whose container_id is None leaves the handle
\* of the named instance as it is, a message with Some(id) sets it to id.
C36_HandleKeptOrSet ==
    [][(last'.op = "reconcile" /\ last'.result = "status"
          /\ Head(task_queue).name = CoreName /\ Shown(CoreName)) =>
          LET m == Head(task_queue) IN
          /\ Shown(CoreName)'
          /\ HandleOf(servers', CoreName) =
                IF m.container_id = NoneC THEN HandleOf(servers, CoreName)
                ELSE m.container_id]_vars

\* A Starting message, which carries no handle, has just been reconciled for
\* an instance that holds the handle of a container an earlier Start task
\* created
C36_Witness ==
    /\ last.op = "reconcile" /\ hist.received = Starting
    /\ Shown(CoreName) /\ TagOf(servers, CoreName) = "Starting"
    /\ HandleOf(servers, CoreName) # NoneC

\* A Stop task whose stop call failed has reported Error for the name
C17_Witness ==
    /\ hist.stopped = "failed"
    /\ hist.stop_sent = <<StatusMsg(CoreName, Error("Failed to stop"), "c1")>>
    /\ \A i \in 1..MaxTasks : tasks[i].kind # "stop"

---------------------------------------------------------------------------
\* The port functions on a host (rcon_port, check_port_conflict), called on
\* any instance table while other processes bind and release ports.
\*   net.servers   the instance table (not changed here)
\*   net.host      the sockets of the host
\*   net.overflow_checks   whether the build checks integer overflow
\*   net.out       history: the call made last, its arguments and its
\*                 answer; NoCall once the sockets have changed since
\*   net.released  history: the port another process has released since the
\*                 last bind of another process

PortValues == {0, 80, 25565, 65525, 65526, 65535}
PortStatuses ==
    {Stopped, Pulling, Starting, Initializing, Running, Stopping,
     Error("Failed to stop")}
\* The tables: "a" on any of the ports, stopped or running, and "b" on the
\* default port in any status
PortTables ==
    {<<[Instance("a", pa) EXCEPT !.status = sa],
       [Instance("b", pb) EXCEPT !.status = sb]>> :
        pa \in PortValues, sa \in {Stopped, Running},
        pb \in {25565}, sb \in PortStatuses}

NoCall ==
    [op |-> "none", port |-> 0, name |-> "", res |-> "", value |-> NoPort]

InitPort ==
    /\ IdleLife /\ IdleTask /\ IdleRcon /\ NoHist /\ IdleBackup
    /\ net \in {[servers |-> svs, host |-> Host({}, {}, root),
                 overflow_checks |-> overflow_checks,
                 out |-> NoCall, released |-> NoPort] :
                    svs \in PortTables, root \in BOOLEAN,
                    overflow_checks \in BOOLEAN}

\* The program runs until a call has panicked
Alive == net.out.res # "panic"

\* Another process starts to listen on a port
OtherBinds(port) ==
    /\ port # 0 /\ port \notin net.host.bound \cup net.host.held
    /\ Cardinality(net.host.bound) < MaxBound
    /\ net' = [net EXCEPT !.host.bound = @ \cup {port}, !.out = NoCall,
                          !.released = NoPort]

\* Another process closes its listener
OtherReleases(port) ==
    /\ port \in net.host.bound
    /\ net' = [net EXCEPT !.host.bound = @ \ {port}, !.out = NoCall,
                          !.released = port]

\* A call of check_port_conflict(port, server_name)
CheckPort(port, server_name) ==
    /\ Alive
    /\ LET r == check_port_conflict(net.servers, port, server_name,
                                    net.host, net.overflow_checks)
       IN  net' = [net EXCEPT
                      !.host = r.host,
                      !.out = [op |-> "check", port |-> port,
                               name |-> server_name, res |-> r.res,
                               value |-> r.suggested]]

\* A use of rcon_port() on the configuration of an instance (app.rs 311,
\* 716, 1470)
UseRconPort(name) ==
    /\ Alive /\ IndexOf(net.servers, name) # 0
    /\ LET port == net.servers[IndexOf(net.servers, name)].port
           r == rcon_port(port, net.overflow_checks)
       IN  net' = [net EXCEPT
                      !.out = [op |-> "rcon_port", port |-> port,
                               name |-> name, res |-> r.res,
                               value |-> r.value]]

NextPort ==
    \/ \E port \in PortValues : OtherBinds(port) /\ UNCHANGED <<lifeVars, taskVars, rconVars, hist, backup>>
    \/ \E port \in PortValues : OtherReleases(port) /\ UNCHANGED <<lifeVars, taskVars, rconVars, hist, backup>>
    \/ \E port \in PortValues, name \in Names :
           CheckPort(port, name) /\ UNCHANGED <<lifeVars, taskVars, rconVars, hist, backup>>
    \/ \E name \in Names : UseRconPort(name) /\ UNCHANGED <<lifeVars, taskVars, rconVars, hist, backup>>

SpecPort == InitPort /\ [][NextPort]_vars

\* C14 as stated: every use of rcon_port() on a configuration with game port
\* p answers p + 10, a valid 16-bit port, without wrap-around and without
\* abort.  Refuted: for p above 65525 the u16 addition overflows.
C14_RconPortIsPortPlus10 ==
    net.out.op = "rcon_port" =>
        /\ net.out.res = "Ok"
        /\ net.out.value = net.out.port + 10
        /\ net.out.value \in 0..MaxPort

\* What the code does keep: p + 10 for every p up to 65525
RconPortBelowOverflow ==
    (net.out.op = "rcon_port" /\ net.out.port <= MaxPort - 10) =>
        net.out.res = "Ok" /\ net.out.value = net.out.port + 10

\* The instances of the table other than server_name configured for port
OthersOn(port, server_name) ==
    {i \in 1..Len(net.servers) :
        net.servers[i].name # server_name /\ net.servers[i].port = port}

\* C15: check_port_conflict(port, name) reports an internal conflict if and
\* only if an instance with another name is configured for the port and is
\* Running, Starting or Initializing; instances on the port that are Stopped,
\* Pulling, Stopping or in Error, and the instance name itself, cause none.
C15_InternalConflictIff ==
    net.out.op = "check" =>
        LET others == OthersOn(net.out.port, net.out.name) IN
        /\ net.out.res = "internal" <=>
              \E i \in others :
                  net.servers[i].status \in {Running, Starting, Initializing}
        /\ (\A i \in others :
                net.servers[i].status.tag
                    \in {"Stopped", "Pulling", "Stopping", "Error"})
              => net.out.res # "internal"

\* A check for "a", itself Running on the port, while "b" on the same port is
\* Pulling, has reported no conflict
C15_Witness ==
    /\ net.out.op = "check" /\ net.out.name = "a" /\ net.out.res = "none"
    /\ net.servers[1].port = net.out.port /\ net.servers[1].status = Running
    /\ net.servers[2].port = net.out.port /\ net.servers[2].status = Pulling

\* The last call was a check that found no internal collision, of a port
\* the program is allowed to bind (a check of a port below 1024 without root
\* privileges answers the 'permission denied' conflict, held or not)
CheckedTheHost ==
    /\ net.out.op = "check"
    /\ net.host.root \/ net.out.port \notin 1..(FirstFreePort - 1)
    /\ \A i \in OthersOn(net.out.port, net.out.name) :
          net.servers[i].status \notin {Running, Starting, Initializing}

InUseThenFreeBelowLastPort ==
    (CheckedTheHost /\ ~(net.out.port = MaxPort /\ net.overflow_checks))
      => /\ net.out.port \in net.host.bound => net.out.res = "addr_in_use"
         /\ net.out.port \notin net.host.bound => net.out.res = "none"
         /\ net.host.held = {}

\* The ports that are free for the program: no process listens on them and
\* the program may bind them
FreePorts ==
    {q \in 0..MaxPort :
        /\ q \notin net.host.bound \cup net.host.held
        /\ net.host.root \/ q \notin 1..(FirstFreePort - 1)}
\* The last call was a check that ended in the bind of the port failing with
\* 'address in use'
BindInUse ==
    /\ CheckedTheHost
    /\ net.out.port \in net.host.bound

\* C29 as stated: when the bind of the requested port p fails with 'address
\* in use', the check answers (it does not abort) with the 'in use' conflict
\* and a suggested port q that is above p, at most 65535, free, and the
\* smallest such port.
\* Refuted: for p = 65535 the port to fall back on, p + 1, overflows.
C29_SuggestsNextFreePort ==
    BindInUse =>
        /\ net.out.res = "addr_in_use"
        /\ net.out.value > net.out.port /\ net.out.value <= MaxPort
        /\ net.out.value \in FreePorts
        /\ \A q \in (net.out.port + 1)..(net.out.value - 1) : q \notin FreePorts

\* What the code does keep: the same for every p below 65535
SuggestsNextFreePortBelowLastPort ==
    (BindInUse /\ net.out.port < MaxPort) =>
        /\ net.out.res = "addr_in_use"
        /\ net.out.value > net.out.port /\ net.out.value <= MaxPort
        /\ net.out.value \in FreePorts
        /\ \A q \in (net.out.port + 1)..(net.out.value - 1) : q \notin FreePorts

\* A port was checked while held, and again after its release
ReleasedThenFree ==
    /\ CheckedTheHost /\ net.out.port = net.released
    /\ net.out.res = "none"

---------------------------------------------------------------------------
\* The RCON client (src/src/rcon.rs).  A byte is a number in 0..255, the
\* stream a sequence of bytes, a string a sequence of code points.

REPLACEMENT == 65533     \* U+FFFD, what from_utf8_lossy puts for a bad byte

\* i32::to_le_bytes: the four bytes of the two's complement of v
to_le_bytes(v) ==
    LET w == IF v >= 0 THEN v ELSE (v + 2147483647) + 1 IN
    <<w % 256, (w \div 256) % 256, (w \div 65536) % 256,
      ((w \div 16777216) % 128) + (IF v < 0 THEN 128 ELSE 0)>>

\* i32::from_le_bytes
from_le_bytes(b) ==
    LET low == b[1] + 256 * b[2] + 65536 * b[3] IN
    IF b[4] < 128 THEN low + 16777216 * b[4]
    ELSE ((low + 16777216 * (b[4] - 128)) - 2147483647) - 1

\* `as usize` of an i32 (rcon.rs 209): sign extension to 64 bits, kept as four
\* digits of 16 bits, least significant first
as_usize(v) ==
    IF v >= 0 THEN <<v % 65536, v \div 65536, 0, 0>>
    ELSE LET w == (v + 2147483647) + 1 IN
         <<w % 65536, (w \div 65536) + 32768, 65535, 65535>>

\* comparisons of a usize with a number below 65536
UsizeBelow(u, n) == u[4] = 0 /\ u[3] = 0 /\ u[2] = 0 /\ u[1] < n
UsizeAbove(u, n) == ~(u[4] = 0 /\ u[3] = 0 /\ u[2] = 0 /\ u[1] <= n)

IsAscii(s) == \A i \in 1..Len(s) : s[i] < 128

\* str::as_bytes: the UTF-8 bytes of a string of this model: an ASCII
\* character is its byte, U+FFFD is the bytes EF BF BD
RECURSIVE Utf8(_)
Utf8(str) ==
    IF str = <<>> THEN <<>>
    ELSE (IF Head(str) < 128 THEN <<Head(str)>> ELSE <<239, 191, 189>>)
             \o Utf8(Tail(str))
as_bytes(str) == IF IsAscii(str) THEN str ELSE Utf8(str)

\* String::from_utf8_lossy for the bytes of this model: an ASCII byte is its
\* character, the bytes EF BF BD are U+FFFD, any other byte from 128 up is
\* ill-formed and becomes U+FFFD
RECURSIVE Lossy(_)
Lossy(bytes) ==
    IF bytes = <<>> THEN <<>>
    ELSE IF Head(bytes) < 128 THEN <<Head(bytes)>> \o Lossy(Tail(bytes))
    ELSE IF Len(bytes) >= 3 /\ SubSeq(bytes, 1, 3) = <<239, 191, 189>>
         THEN <<REPLACEMENT>> \o Lossy(SubSeq(bytes, 4, Len(bytes)))
    ELSE <<REPLACEMENT>> \o Lossy(Tail(bytes))
from_utf8_lossy(bytes) == IF IsAscii(bytes) THEN bytes ELSE Lossy(bytes)

\* str::trim_end_matches(0): the string without the NULs at its end
trim_end_matches_nul(str) ==
    IF \A i \in 1..Len(str) : str[i] = 0 THEN <<>>
    ELSE SubSeq(str, 1,
             CHOOSE k \in 1..Len(str) :
                 str[k] # 0 /\ \A j \in (k + 1)..Len(str) : str[j] = 0)

\* rcon.rs 161-178: the frame send_packet builds
Packet(request_id, packet_type, payload) ==
    LET payload_bytes == as_bytes(payload)
        length == 4 + 4 + Len(payload_bytes) + 1 + 1
    IN  to_le_bytes(length) \o to_le_bytes(request_id)
            \o to_le_bytes(packet_type) \o payload_bytes \o <<0>> \o <<0>>

TooLarge_OffByOne(length) == UsizeAbove(length, MaxLength + 1)

TooSmall_OffByOne(length) == UsizeBelow(length, MinLength - 1)

\* rcon.rs 212 and 218: the two checks of the declared length
TooSmall(length) == UsizeBelow(length, MinLength)
TooLarge(length) == UsizeAbove(length, MaxLength)

NoPacket ==
    [res |-> "none", id |-> 0, type |-> 0, payload |-> <<>>, declared |-> 0,
     nread |-> 0, alloc |-> 0, payload_end |-> 0, rest |-> <<>>,
     echo |-> FALSE, stalled |-> ""]

\* A slice buf[start..end] of a buffer of len bytes is taken without a panic
\* when start <= end <= len
SliceInBounds(start, end, len) == start <= end /\ end <= len

\* rcon.rs 195-246: receive_packet on a stream that holds the bytes inp and
\* then stalls: with "timeout" the read times out, with "eof" the peer has
\* closed.  The answer: res, the packet (id, type, payload), the declared
\* length as the i32 read, nread the bytes taken from the stream, alloc the
\* size of the body buffer allocated, payload_end the end of the payload
\* slice buf[8..payload_end], rest the bytes left in the stream, stalled how
\* the read that failed ended ("" when every read was served).  res is
\* "panic" when the slice is out of bounds (so is length - 2 below zero in a
\* build that checks overflow; in one that does not it wraps to a value far
\* above the buffer's length).
\* A read_exact that fails is taken to have consumed what was there.
receive_packet(inp, stall) ==
    IF Len(inp) < 4
    THEN [NoPacket EXCEPT
             !.res = IF stall = "timeout" THEN "Timeout" ELSE "ReceiveFailed",
             !.nread = Len(inp), !.stalled = stall]
    ELSE LET declared == from_le_bytes(SubSeq(inp, 1, 4))
             length == as_usize(declared)
         IN  IF TooSmall(length) \/ TooLarge(length)
             THEN [NoPacket EXCEPT !.res = "InvalidResponse",
                       !.declared = declared, !.nread = 4,
                       !.rest = SubSeq(inp, 5, Len(inp))]
             ELSE LET n == length[1] IN
                  IF Len(inp) - 4 < n
                  THEN [NoPacket EXCEPT !.res = "ReceiveFailed",
                            !.declared = declared, !.nread = Len(inp),
                            !.alloc = n, !.stalled = stall]
                  ELSE LET buf == SubSeq(inp, 5, 4 + n)
                           payload_end == n - 2
                           payload_bytes == SubSeq(buf, 9, payload_end)
                       IN  IF ~SliceInBounds(8, payload_end, n)
                           THEN [NoPacket EXCEPT !.res = "panic",
                                     !.declared = declared, !.nread = 4 + n,
                                     !.alloc = n, !.payload_end = payload_end]
                           ELSE
                           [res |-> "Ok",
                            id |-> from_le_bytes(SubSeq(buf, 1, 4)),
                            type |-> from_le_bytes(SubSeq(buf, 5, 8)),
                            payload |-> trim_end_matches_nul(
                                            from_utf8_lossy(payload_bytes)),
                            declared |-> declared, nread |-> 4 + n,
                            alloc |-> n, payload_end |-> payload_end,
                            rest |-> SubSeq(inp, 5 + n, Len(inp)),
                            echo |-> FALSE, stalled |-> ""]

\* The client and its connection:
\*   pc          "new", "auth1" / "auth2" (authenticate waits for its first /
\*               second reply), "ready", "cmd" (command waits), "failed"
\*   request_id  self.request_id
\*   out         the bytes of the last frame written to the stream
\*   inp         the bytes the stream holds for reading
\*   echo        inp is the frame in out, sent back by the peer
\*   sent        history: what the last send_packet was called with
\*   ids         history: the request ids of the send_packet calls so far
\*   prev        history: how the call before the current command ended
\*   got         history: the answers of the receive_packet calls of the
\*               current connect or command
\*   result      history: how the last connect or command ended, returned
\*               the payload it gave back
NewClient ==
    [pc |-> "new", request_id |-> 0, out |-> <<>>, inp |-> <<>>,
     echo |-> FALSE, sent |-> [id |-> 0, type |-> 0, payload |-> <<>>],
     got |-> <<>>, result |-> "", returned |-> <<>>, ids |-> <<>>,
     prev |-> ""]

send_packet_KeepsIdOnFailure(c, packet_type, payload, write_ok) ==
    LET request_id == c.request_id
        c1 == [c EXCEPT !.sent = [id |-> request_id, type |-> packet_type,
                                  payload |-> payload],
                        !.ids = Append(@, request_id)]
    IN  IF write_ok
        THEN [c |-> [c1 EXCEPT !.request_id = request_id + 1,
                               !.out = Packet(request_id, packet_type, payload)],
              res |-> "Ok"]
        ELSE [c |-> c1, res |-> "SendFailed"]

\* rcon.rs 157-192: send_packet; write_ok is whether write_all and flush
\* succeeded.  The answer is the client after it and the result.
send_packet(c, packet_type, payload, write_ok) ==
    LET request_id == c.request_id
        c1 == [c EXCEPT !.request_id = request_id + 1,
                        !.sent = [id |-> request_id, type |-> packet_type,
                                  payload |-> payload],
                        !.ids = Append(@, request_id)]
    IN  IF write_ok
        THEN [c |-> [c1 EXCEPT !.out = Packet(request_id, packet_type, payload)],
              res |-> "Ok"]
        ELSE [c |-> c1, res |-> "SendFailed"]

\* The client after a receive_packet that answered r
Received(c, r) ==
    [c EXCEPT !.inp = r.rest, !.echo = FALSE,
              !.got = Append(@, [r EXCEPT !.echo = c.echo, !.rest = <<>>])]

Fail(c, res) == [c EXCEPT !.pc = "failed", !.result = res]

AfterAuthReply1_NoSkip(c, r) ==
    IF r.res # "Ok" THEN Fail(c, r.res)
    ELSE IF r.id = -1 THEN Fail(c, "AuthFailed")
    ELSE [c EXCEPT !.pc = "ready", !.result = "Ok"]

AfterAuthReply2_Accepts(c, r) ==
    IF r.res # "Ok" THEN Fail(c, r.res)
    ELSE [c EXCEPT !.pc = "ready", !.result = "Ok"]

\* rcon.rs 100-127: authenticate after its first reply
AfterAuthReply1(c, r) ==
    IF r.res # "Ok" THEN Fail(c, r.res)
    ELSE IF r.id = -1 THEN Fail(c, "AuthFailed")
    ELSE IF r.type = SERVERDATA_RESPONSE_VALUE THEN [c EXCEPT !.pc = "auth2"]
    ELSE [c EXCEPT !.pc = "ready", !.result = "Ok"]

\* rcon.rs 113-127: authenticate after the second reply
AfterAuthReply2(c, r) ==
    IF r.res # "Ok" THEN Fail(c, r.res)
    ELSE IF r.id = -1 THEN Fail(c, "AuthFailed")
    ELSE [c EXCEPT !.pc = "ready", !.result = "Ok"]

\* Inputs: payloads and passwords are strings over "A" and NUL, short ones of
\* every length up to MaxPayload and long ones around the largest frame
Chars == {0, 65}
ShortStrings == UNION {[1..n -> Chars] : n \in 0..MaxPayload}
LongLengths == {MaxLength - 11, MaxLength - 10, MaxLength - 9}
Repeat(ch, n) == SubSeq([i \in 1..n |-> ch], 1, n)
LongStrings == {Repeat(65, n) : n \in LongLengths}
Strings == ShortStrings \cup LongStrings

\* What a peer may write: a length field, honest or not, and then all, a part
\* or nothing of a body
PeerIds == {-1, 1, 7}
PeerTypes == {SERVERDATA_RESPONSE_VALUE, SERVERDATA_AUTH_RESPONSE}
PeerPayloads == {<<>>, <<255, 0>>}
PeerLengths(body) ==
    {Len(body), MinLength - 1, MaxLength + 1, MaxLength, -1}
PeerBody(id, type, payload) ==
    to_le_bytes(id) \o to_le_bytes(type) \o payload \o <<0, 0>>
PeerFrames ==
    UNION {{to_le_bytes(declared) \o SubSeq(body, 1, keep) :
               declared \in PeerLengths(body), keep \in {0, Len(body)}} :
           body \in {PeerBody(id, type, payload) :
                        id \in PeerIds, type \in PeerTypes,
                        payload \in PeerPayloads}}
        \cup {<<>>, <<10, 0>>}

\* rcon.rs 54-97: connect up to the first read of authenticate
Connect(password) ==
    /\ rcon.pc = "new"
    /\ \E conn_ok \in BOOLEAN, write_ok \in BOOLEAN :
          IF ~conn_ok
          THEN rcon' = Fail(rcon, "ConnectionFailed")
          ELSE LET s == send_packet([rcon EXCEPT !.request_id = 1],
                                    SERVERDATA_AUTH, password, write_ok)
               IN  rcon' = IF s.res = "Ok" THEN [s.c EXCEPT !.pc = "auth1"]
                           ELSE Fail(s.c, s.res)

Waiting == rcon.pc \in {"auth1", "auth2", "cmd"}

\* The peer writes a frame of its choosing
PeerWrites ==
    /\ Waiting /\ rcon.inp = <<>>
    /\ \E frame \in PeerFrames \ {<<>>} :
          rcon' = [rcon EXCEPT !.inp = frame, !.echo = FALSE]

\* The peer sends back the frame it was sent
PeerEchoes ==
    /\ Waiting /\ rcon.inp = <<>> /\ rcon.out # <<>>
    /\ rcon' = [rcon EXCEPT !.inp = rcon.out, !.echo = TRUE]

RecvAuth1 ==
    /\ rcon.pc = "auth1"
    /\ \E stall \in {"timeout", "eof"} :
          LET r == receive_packet(rcon.inp, stall) IN
          rcon' = AfterAuthReply1(Received(rcon, r), r)

RecvAuth2 ==
    /\ rcon.pc = "auth2"
    /\ \E stall \in {"timeout", "eof"} :
          LET r == receive_packet(rcon.inp, stall) IN
          rcon' = AfterAuthReply2(Received(rcon, r), r)

\* rcon.rs 131-134: command up to its read
Command(cmd) ==
    /\ rcon.pc = "ready" /\ rcon.request_id <= MaxRequestId
    /\ \E write_ok \in BOOLEAN :
          LET s == send_packet([rcon EXCEPT !.got = <<>>, !.result = "",
                                            !.returned = <<>>,
                                            !.prev = rcon.result],
                               SERVERDATA_EXECCOMMAND, cmd, write_ok)
          IN  rcon' = IF s.res = "Ok" THEN [s.c EXCEPT !.pc = "cmd"]
                      ELSE [s.c EXCEPT !.result = s.res]

\* rcon.rs 136-153: command after its reply
RecvCommand ==
    /\ rcon.pc = "cmd"
    /\ \E stall \in {"timeout", "eof"} :
          LET r == receive_packet(rcon.inp, stall)
              c == Received(rcon, r)
          IN  rcon' = IF r.res = "Ok"
                      THEN [c EXCEPT !.pc = "ready", !.result = "Ok",
                                     !.returned = r.payload]
                      ELSE [c EXCEPT !.pc = "ready", !.result = r.res]

InitRcon ==
    IdleLife /\ IdleTask /\ IdlePort /\ NoHist /\ IdleBackup /\ rcon = NewClient

NextRcon ==
    \/ \E password \in Strings : Connect(password) /\ UNCHANGED <<lifeVars, taskVars, net, hist, backup>>
    \/ PeerWrites /\ UNCHANGED <<lifeVars, taskVars, net, hist, backup>>
    \/ PeerEchoes /\ UNCHANGED <<lifeVars, taskVars, net, hist, backup>>
    \/ RecvAuth1 /\ UNCHANGED <<lifeVars, taskVars, net, hist, backup>>
    \/ RecvAuth2 /\ UNCHANGED <<lifeVars, taskVars, net, hist, backup>>
    \/ \E cmd \in Strings : Command(cmd) /\ UNCHANGED <<lifeVars, taskVars, net, hist, backup>>
    \/ RecvCommand /\ UNCHANGED <<lifeVars, taskVars, net, hist, backup>>

SpecRcon == InitRcon /\ [][NextRcon]_vars

\* The answer of the last receive_packet of the current call
HasReply == rcon.pc # "new" /\ rcon.got # <<>>
LastReply == rcon.got[Len(rcon.got)]
\* str without its last character when that is a NUL
DropOneNul(str) ==
    IF str # <<>> /\ str[Len(str)] = 0 THEN SubSeq(str, 1, Len(str) - 1)
    ELSE str
\* The last receive_packet read the frame the last send_packet wrote, and the
\* payload of that frame had at most 4086 bytes
ReadEcho ==
    /\ HasReply /\ LastReply.echo
    /\ Len(rcon.sent.payload) <= MaxLength - MinLength

\* C8 as stated: a frame written by send_packet (payload of 0 to 4086 bytes)
\* and read back by receive_packet gives the same request id, the same packet
\* type and the same payload, but for at most one NUL removed at its end.
\* Refuted: receive_packet removes every NUL at the end of the payload.
C8_RoundTrip ==
    ReadEcho =>
        /\ LastReply.res = "Ok"
        /\ LastReply.id = rcon.sent.id
        /\ LastReply.type = rcon.sent.type
        /\ LastReply.payload \in {rcon.sent.payload,
                                  DropOneNul(rcon.sent.payload)}

\* What the round trip does keep: the id, the type, and the payload up to
\* all the NULs at its end
RoundTripUpToNuls ==
    ReadEcho =>
        /\ LastReply.res = "Ok"
        /\ LastReply.id = rcon.sent.id
        /\ LastReply.type = rcon.sent.type
        /\ LastReply.payload = trim_end_matches_nul(rcon.sent.payload)

\* C9: a receive_packet that has read a length below 10 or above 4096 answers
\* InvalidResponse, has taken only the 4 length bytes from the stream and
\* has allocated no body buffer.
C9_LengthRejected ==
    \A i \in 1..Len(rcon.got) :
        LET g == rcon.got[i] IN
        (g.nread >= 4 /\ (g.declared < MinLength \/ g.declared > MaxLength)) =>
            g.res = "InvalidResponse" /\ g.nread = 4 /\ g.alloc = 0

\* The lengths that pass both checks of receive_packet, and their slices
AcceptedLengths ==
    {length \in (MinLength - 2)..(MaxLength + 2) :
        ~TooSmall(as_usize(length)) /\ ~TooLarge(as_usize(length))}
AcceptedSlicesInBounds ==
    \A length \in AcceptedLengths : SliceInBounds(8, length - 2, length)

\* C37: for every declared length that receive_packet accepts the payload
\* slice buf[8 .. length - 2] lies inside the body buffer of length bytes
\* (8 <= length - 2 <= length), so that parsing a body that has been read
\* does not panic; a frame of length exactly 10 yields the empty payload.
C37_SliceInBounds ==
    /\ AcceptedLengths = MinLength..MaxLength
    /\ AcceptedSlicesInBounds
    /\ \A i \in 1..Len(rcon.got) :
           LET g == rcon.got[i] IN
           (g.alloc > 0 /\ g.nread = 4 + g.alloc) =>
               /\ g.res = "Ok"
               /\ MinLength <= g.alloc /\ g.alloc <= MaxLength
               /\ SliceInBounds(8, g.payload_end, g.alloc)
               /\ g.payload_end = g.alloc - 2
               /\ g.alloc = MinLength => g.payload = <<>>

\* A frame of length 10 has been read and has given the empty payload, after
\* one whose payload was not empty
C37_Witness ==
    /\ Len(rcon.got) = 2
    /\ rcon.got[1].res = "Ok" /\ rcon.got[1].alloc > MinLength
    /\ rcon.got[1].payload_end > 8
    /\ rcon.got[2].res = "Ok" /\ rcon.got[2].alloc = MinLength
    /\ rcon.got[2].payload_end = 8 /\ rcon.got[2].payload = <<>>

\* A length of 4097 has been rejected with the body still in the stream
C9_Witness ==
    /\ HasReply
    /\ LastReply.declared = MaxLength + 1 /\ LastReply.res = "InvalidResponse"
    /\ rcon.inp # <<>>

\* C10: while connect authenticates, a reply read with request id -1, be it
\* the first reply or the second one after a skipped type-0 reply, whatever
\* its type and payload, ends authenticate (and connect) with AuthFailed.
C10_MinusOneFailsAuth ==
    (rcon.pc # "new" /\ rcon.sent.type = SERVERDATA_AUTH
        /\ \E i \in 1..Len(rcon.got) :
              rcon.got[i].res = "Ok" /\ rcon.got[i].id = -1)
      => rcon.pc = "failed" /\ rcon.result = "AuthFailed"

\* A second reply of type 2 with a payload and request id -1 has been read
C10_Witness ==
    /\ rcon.sent.type = SERVERDATA_AUTH /\ Len(rcon.got) = 2
    /\ rcon.got[1].type = SERVERDATA_RESPONSE_VALUE
    /\ rcon.got[2].res = "Ok" /\ rcon.got[2].id = -1
    /\ rcon.got[2].type = SERVERDATA_AUTH_RESPONSE
    /\ rcon.got[2].payload # <<>>
    /\ rcon.result = "AuthFailed"

\* C11 as stated: a receive_packet whose read timed out, be it the read of
\* the 4 length bytes or the read of the frame body, answers Timeout.
\* Refuted: a time-out of the body read is answered with ReceiveFailed.
C11_TimeoutIsTimeout ==
    \A i \in 1..Len(rcon.got) :
        rcon.got[i].stalled = "timeout" => rcon.got[i].res = "Timeout"

\* What the code does keep: a time-out of the length read answers Timeout
TimeoutOfLengthRead ==
    \A i \in 1..Len(rcon.got) :
        (rcon.got[i].stalled = "timeout" /\ rcon.got[i].nread < 4)
            => rcon.got[i].res = "Timeout"

\* C12: in a session the frames sent carry the request ids 1, 2, 3, ... in
\* this order: the authenticate frame 1, the n-th command after it 1 + n,
\* whether or not the exchanges before it succeeded; so the ids increase
\* strictly and none is used twice.
C12_FreshRequestIds ==
    /\ \A n \in 1..Len(rcon.ids) : rcon.ids[n] = n
    /\ rcon.ids # <<>> =>
          /\ rcon.sent.id = Len(rcon.ids)
          /\ rcon.sent.type = IF Len(rcon.ids) = 1 THEN SERVERDATA_AUTH
                                                   ELSE SERVERDATA_EXECCOMMAND
          /\ rcon.request_id = Len(rcon.ids) + 1

\* A command has been sent with id 3 after a command that failed
C12_Witness ==
    /\ Len(rcon.ids) = 3 /\ rcon.pc = "cmd" /\ rcon.sent.id = 3
    /\ rcon.prev \in {"SendFailed", "Timeout", "InvalidResponse"}

\* authenticate is running or has ended, and no command was sent since
Authenticating == rcon.pc # "new" /\ rcon.sent.type = SERVERDATA_AUTH
\* The first reply of authenticate was read and did not carry id -1
FirstReplyPasses ==
    /\ Authenticating /\ rcon.got # <<>>
    /\ rcon.got[1].res = "Ok" /\ rcon.got[1].id # -1

\* C13: when the first reply of authenticate has type 0 and an id other than
\* -1, authenticate goes on to read a second frame, and once that frame is
\* read it succeeds if and only if the frame's id is not -1 (AuthFailed
\* otherwise); when the first reply has another type and an id other than
\* -1, authenticate succeeds having read exactly one frame.
C13_SkipsTypeZeroReply ==
    FirstReplyPasses =>
        IF rcon.got[1].type = SERVERDATA_RESPONSE_VALUE
        THEN /\ Len(rcon.got) \in {1, 2}
             /\ Len(rcon.got) = 1 <=> rcon.pc = "auth2"
             /\ (Len(rcon.got) = 2 /\ rcon.got[2].res = "Ok") =>
                   /\ rcon.pc \in {"ready", "failed"}
                   /\ rcon.pc = "ready" <=> rcon.got[2].id # -1
                   /\ rcon.result = IF rcon.got[2].id # -1 THEN "Ok"
                                                           ELSE "AuthFailed"
        ELSE Len(rcon.got) = 1 /\ rcon.pc = "ready" /\ rcon.result = "Ok"

\* A type-0 first reply was skipped and authenticate succeeded on a second
\* frame whose id is neither -1 nor the id of the authenticate frame
C13_Witness ==
    /\ FirstReplyPasses /\ rcon.got[1].type = SERVERDATA_RESPONSE_VALUE
    /\ Len(rcon.got) = 2 /\ rcon.got[2].res = "Ok" /\ rcon.got[2].id = 7
    /\ rcon.pc = "ready" /\ rcon.result = "Ok"

---------------------------------------------------------------------------
\* SpecPair: two instances and the handlers Start, Stop and Delete called on
\* either in any status, their background tasks interleaved freely with each
\* other and with the reconciliation.
\*   hist.sent[n]  the ServerStatus messages the tasks have sent for the name
\*                 n, in the order of the sends
\*   hist.recv[n]  the ServerStatus messages for n that process_task_messages
\*                 has taken from the channel, in the order taken

MaxPairOps == 2   \* calls of the handlers on the two instances in one run

\* The tables DrakonixApp::new may load here: "a" without container handle
\* and Stopped, or with its handle and Running; "b" without handle, Stopped
PairTables ==
    {<<[Instance("a", 25565) EXCEPT !.container_id = a[1], !.status = a[2]],
       Instance("b", 25566)>> :
        a \in {<<NoneC, Stopped>>, <<"c1", Running>>}}

NoPairHistory ==
    [sent |-> [n \in Names |-> <<>>], recv |-> [n \in Names |-> <<>>]]

InitPair ==
    /\ servers \in PairTables
    /\ disk = servers
    /\ docker = TRUE
    /\ task_queue = <<>>
    /\ tasks = [i \in 1..MaxTasks |-> NoTask]
    /\ last = FirstOp
    /\ IdleTask /\ IdleRcon /\ IdlePort /\ IdleBackup
    /\ hist = NoPairHistory

\* What the step of the task t that is due can come to, one result for each
\* answer of the call the task awaits (of the poller, the iteration that
\* ends it)
Answers(t) ==
    IF t.pc = "spawned" THEN {TaskBegin(t)}
    ELSE IF t.pc = "ensure_image"
    THEN {AfterEnsureImage(t, ok) : ok \in BOOLEAN}
    ELSE IF t.pc = "create_container"
    THEN {AfterCreateContainer(t, FALSE, NoneC)}
            \cup (IF ContainerIds \ UsedIds = {} THEN {}
                  ELSE {AfterCreateContainer(t, TRUE, FreshId)})
    ELSE IF t.pc = "start_container"
    THEN {AfterStartContainer(t, ok) : ok \in BOOLEAN}
    ELSE IF t.pc = "poll"
    THEN {r \in {PollIteration([t EXCEPT !.attempt = attempt], live, probe, 0) :
                    attempt \in {1, max_attempts},
                    live \in {"true", "false", "err"},
                    probe \in {"online", "offline", "connfail"}} :
             r.t.pc = "done"}
    ELSE IF t.pc = "stop_container"
    THEN {AfterStopContainer(t, ok) : ok \in BOOLEAN}
    ELSE {}

PairTaskStep(i) ==
    \E r \in Answers(tasks[i]) :
        /\ Advance(i, r)
        /\ hist' = [hist EXCEPT !.sent[tasks[i].name] = @ \o StatusOnly(r.out)]

PairReconcile ==
    /\ process_task_messages
    /\ hist' = IF IsStatusMsg(Head(task_queue))
               THEN [hist EXCEPT
                        !.recv[Head(task_queue).name] =
                            Append(@, Head(task_queue))]
               ELSE hist

\* No task works on the name
Free(name) == \A i \in 1..MaxTasks : tasks[i].name # name

\* Start and Stop are called on an instance no task works on (the calls
\* made while a task of the same instance is in flight are those of SpecCore)
PairStart(name) ==
    /\ last.ops < MaxPairOps /\ Free(name)
    /\ start_server(name, {}) /\ UNCHANGED hist
PairStop(name) ==
    /\ last.ops < MaxPairOps /\ Free(name)
    /\ stop_server(name) /\ UNCHANGED hist
PairDelete(name) ==
    last.ops < MaxPairOps /\ delete_server(name) /\ UNCHANGED hist

NextPair ==
    \/ \E name \in Names : PairStart(name) /\ UNCHANGED <<tk, trace, rcon, net, backup>>
    \/ \E name \in Names : PairStop(name) /\ UNCHANGED <<tk, trace, rcon, net, backup>>
    \/ \E name \in Names : PairDelete(name) /\ UNCHANGED <<tk, trace, rcon, net, backup>>
    \/ PairReconcile /\ UNCHANGED <<tk, trace, rcon, net, backup>>
    \/ \E i \in 1..MaxTasks : PairTaskStep(i) /\ UNCHANGED <<tk, trace, rcon, net, backup>>

SpecPair == InitPair /\ [][NextPair]_vars

\* The messages of the channel that name n, in order
RECURSIVE ForName(_, _)
ForName(q, n) ==
    IF q = <<>> THEN <<>>
    ELSE (IF Head(q).name = n THEN <<Head(q)>> ELSE <<>>) \o ForName(Tail(q), n)

\* C21: the ServerStatus messages the reconciliation has taken for a name
\* are, in the same order, the first of the messages the tasks sent for that
\* name, the rest of them waiting in the channel in the order sent, whatever
\* the messages for the other name in between; and the step that takes a
\* message gives its status to the instance of that name.
C21_AppliedInOrderSent ==
    /\ [](\A n \in Names :
             hist.sent[n] = hist.recv[n] \o ForName(task_queue, n))
    /\ [][\A n \in Names :
             (hist'.recv[n] # hist.recv[n] /\ IndexOf(servers, n) # 0) =>
                 /\ hist'.recv[n] = Append(hist.recv[n], Head(task_queue))
                 /\ IndexOf(servers', n) # 0
                 /\ servers'[IndexOf(servers', n)].status =
                       Head(task_queue).status]_vars

\* The first message of the Start task of "a" has been taken and applied
\* while the channel holds, in this order, a message for "b", the next one
\* for "a" and another one for "b"
C21_Witness ==
    /\ last.op = "reconcile" /\ last.name = "a"
    /\ hist.recv["a"] = <<StatusMsg("a", Starting, NoneC)>>
    /\ Shown("a") /\ TagOf(servers, "a") = "Starting"
    /\ Len(task_queue) = 3
    /\ task_queue[1].name = "b" /\ task_queue[3].name = "b"
    /\ task_queue[2] = StatusMsg("a", Initializing, "c1")

---------------------------------------------------------------------------
\* The persisted list (checked under Spec)

\* The operations that change the instance table
TableOps == {"create", "edit", "start", "stop", "delete", "reconcile"}
\* Those of them that call save_servers
SavingOps == {"create", "edit", "delete", "reconcile"}

\* C22 as stated: when create, edit, Start, Stop, Delete or the
\* reconciliation of a status message has changed the instance table, the
\* persisted list equals the table once the operation has returned (the
\* write succeeding).
\* Refuted: Start and Stop change a status and do not save.
C22_PersistedEqualsTable ==
    [][(last'.op \in TableOps /\ servers' # servers) => disk' = servers']_vars

\* What the code does keep: the same for create, edit, Delete and the
\* reconciliation of a status message
PersistedAfterSavingOps ==
    [][(last'.op \in SavingOps /\ servers' # servers) => disk' = servers']_vars

\* The instance of the name n as the table svs holds it, <<>> when it holds
\* none
Entry(svs, n) == IF IndexOf(svs, n) = 0 THEN <<>> ELSE svs[IndexOf(svs, n)]

\* C26: the reconciliation of a ServerStatus message for a name changes no
\* instance of another name (status, container handle and the rest alike)
\* and neither adds nor removes an instance; when the table holds no
\* instance of that name it is left as it is.
C26_OnlyTheNamedInstance ==
    [][(last'.op = "reconcile" /\ last'.result = "status") =>
          LET m == Head(task_queue) IN
          /\ Len(servers') = Len(servers)
          /\ \A n \in Names \ {m.name} : Entry(servers', n) = Entry(servers, n)
          /\ \A i \in 1..Len(servers) :
                servers[i].name # m.name => servers'[i] = servers[i]
          /\ IndexOf(servers, m.name) = 0 => servers' = servers]_vars

\* A message for "b" has been applied while "a" is Initializing with its
\* handle: "b" is Starting, "a" as before
C26_Witness ==
    /\ last.op = "reconcile" /\ last.name = "b" /\ last.before = "Pulling"
    /\ Shown("b") /\ TagOf(servers, "b") = "Starting"
    /\ Shown("a") /\ TagOf(servers, "a") = "Initializing"
    /\ HandleOf(servers, "a") = "c1" /\ HandleOf(servers, "b") = NoneC

\* A message of the Start task of "a" has been reconciled after Delete had
\* removed "a": the table holds "b" alone, as before
ReconciledUnknownName ==
    /\ last.op = "reconcile" /\ last.name = "a" /\ last.before = ""
    /\ ~Shown("a") /\ Shown("b") /\ Len(servers) = 1

\* C28: a Start that fails on the creation of the data directory sets the
\* status of its instance to Error with the cause and changes nothing else
\* of the table, raises the notification about it, spawns no task and sends
\* nothing (so that no call of the container service is made for it).
C28_DataDirFailureIsVisible ==
    [][(last'.op = "start" /\ last'.result = "data_dir_failed") =>
          /\ IndexOf(servers, last'.name) # 0
          /\ servers' = [servers EXCEPT
                ![IndexOf(servers, last'.name)].status =
                    Error("Failed to create data dir")]
          /\ last'.notice = "Failed to create data directory"
          /\ UNCHANGED <<tasks, task_queue, docker>>]_vars

\* Start of a Stopped instance has failed on the data directory: the
\* instance is in Error and no task runs
C28_Witness ==
    /\ last.op = "start" /\ last.result = "data_dir_failed"
    /\ last.before = "Stopped"
    /\ last.notice = "Failed to create data directory"
    /\ Shown(last.name)
    /\ servers[IndexOf(servers, last.name)].status =
          Error("Failed to create data dir")
    /\ \A i \in 1..MaxTasks : tasks[i] = NoTask

\* The statuses check_port_conflict counts as holding the port
ActiveTags == {"Running", "Starting", "Initializing"}

\* C30 as stated: no two instances configured for the same port are Running,
\* Starting or Initializing at the same time.
\* Refuted: the port check does not count an instance that is Pulling, so a
\* second instance on the port is started while the first one pulls, and the
\* tasks of both report Starting.
C30_NoTwoActiveOnOnePort ==
    \A i, j \in 1..Len(servers) :
        (i # j /\ servers[i].port = servers[j].port) =>
            ~(servers[i].status.tag \in ActiveTags
                /\ servers[j].status.tag \in ActiveTags)

\* What the code does keep: a Start that spawns its task found no other
\* instance on the port Running, Starting or Initializing
StartFoundNoActiveOnPort ==
    [][(last'.op = "start" /\ last'.result = "spawned") =>
          ~InternalConflict(servers,
                            servers[IndexOf(servers, last'.name)].port,
                            last'.name)]_vars

---------------------------------------------------------------------------
\* Backups (src/src/app.rs 594-631 and 786-800, src/src/backup.rs 36-96 and
\* 195-220): create_backup, the backup thread, the thread that forwards its
\* progress, and the reconciliation of their messages.
\*
\*   backup.backup_progress   self.backup_progress
\*   backup.runs      the backup threads spawned so far, each with its
\*                    position (pc), the entries still to be added (total,
\*                    idx) and its progress channel progress_tx ->
\*                    progress_rx (chan), which its forwarding thread drains
\*   backup.result    history: how the last create_backup call ended
\*   backup.settled   history: a BackupComplete message has been reconciled
\*                    and create_backup has not been accepted since
\*
\* The task channel is task_queue, as for the Start and Stop tasks.

MaxFiles == 2      \* entries of the data directory of the server
MaxBackups == 2    \* create_backup calls accepted in one run

BackupName == "a"
NoneP == [name |-> "", current |-> 0, total |-> 0]
SomeP(name, current, total) ==
    [name |-> name, current |-> current, total |-> total]

BackupProgressMsg(name, current, total) ==
    [type |-> "BackupProgress", name |-> name, current |-> current,
     total |-> total]
BackupCompleteMsg(name, ok) ==
    [type |-> "BackupComplete", name |-> name, ok |-> ok]

InitBackup ==
    /\ IdleLife /\ IdleTask /\ IdleRcon /\ IdlePort /\ NoHist
    /\ backup = [backup_progress |-> NoneP, runs |-> <<>>,
                 result |-> "none", settled |-> FALSE]

\* app.rs 594-631: create_backup
create_backup(name) ==
    IF backup.backup_progress # NoneP
    THEN /\ backup' = [backup EXCEPT !.result = "already_in_progress"]
         /\ UNCHANGED task_queue
    ELSE /\ Len(backup.runs) < MaxBackups
         /\ \E total \in 0..MaxFiles :
                backup' = [backup EXCEPT
                    !.backup_progress = SomeP(name, 0, 0),
                    !.runs = Append(@, [name |-> name, pc |-> "zip",
                                        idx |-> 0, total |-> total,
                                        chan |-> <<>>]),
                    !.result = "spawned",
                    !.settled = FALSE]
         /\ UNCHANGED task_queue

\* One step of create_backup_with_progress (backup.rs 195-220) in the backup
\* thread.  With an entry left, zip_directory_with_progress sends its
\* progress on the progress channel and then adds it to the archive (63-91);
\* with none left the archive is finished (217).  ok says whether the file
\* operation succeeds; when it fails, or when the archive is finished, the
\* function returns and the thread sends BackupComplete (app.rs 624-628).
BackupStep(r, ok) ==
    LET sent == IF r.idx < r.total
                THEN [r EXCEPT !.chan = Append(@, [current |-> r.idx + 1,
                                                   total |-> r.total])]
                ELSE r
    IN  IF ok /\ r.idx < r.total
        THEN [r |-> [sent EXCEPT !.idx = r.idx + 1], out |-> <<>>]
        ELSE [r |-> [sent EXCEPT !.pc = "done"],
              out |-> <<BackupCompleteMsg(r.name, ok)>>]

BackupThreadStep(k) ==
    /\ backup.runs[k].pc = "zip"
    /\ \E ok \in BOOLEAN :
          LET step == BackupStep(backup.runs[k], ok) IN
          /\ backup' = [backup EXCEPT !.runs[k] = step.r]
          /\ task_queue' = task_queue \o step.out

\* app.rs 613-622: the forwarding thread takes one progress report from the
\* progress channel and sends it on as BackupProgress
ForwardStep(k) ==
    /\ backup.runs[k].chan # <<>>
    /\ LET r == backup.runs[k]
           p == Head(r.chan)
       IN  /\ backup' = [backup EXCEPT !.runs[k].chan = Tail(@)]
           /\ task_queue' = Append(task_queue,
                  BackupProgressMsg(r.name, p.current, p.total))

\* app.rs 786-800: process_task_messages takes the oldest message
BackupReconcile ==
    /\ task_queue # <<>>
    /\ LET m == Head(task_queue) IN
       /\ task_queue' = Tail(task_queue)
       /\ backup' =
            IF m.type = "BackupProgress"
            THEN [backup EXCEPT
                    !.backup_progress = SomeP(m.name, m.current, m.total)]
            ELSE [backup EXCEPT !.backup_progress = NoneP,
                                !.settled = TRUE]

NextBackup ==
    \/ create_backup(BackupName)
         /\ UNCHANGED <<servers, disk, docker, tasks, last, tk, trace, rcon,
                        net, hist>>
    \/ \E k \in 1..MaxBackups :
         /\ k <= Len(backup.runs) /\ BackupThreadStep(k)
         /\ UNCHANGED <<servers, disk, docker, tasks, last, tk, trace, rcon,
                        net, hist>>
    \/ \E k \in 1..MaxBackups :
         /\ k <= Len(backup.runs) /\ ForwardStep(k)
         /\ UNCHANGED <<servers, disk, docker, tasks, last, tk, trace, rcon,
                        net, hist>>
    \/ BackupReconcile
         /\ UNCHANGED <<servers, disk, docker, tasks, last, tk, trace, rcon,
                        net, hist>>

SpecBackup == InitBackup /\ [][NextBackup]_vars

\* A backup thread is at work
BackupRunning ==
    \E k \in 1..Len(backup.runs) : backup.runs[k].pc = "zip"

\* C33: once the BackupComplete message of a backup has been reconciled,
\* backup_progress is None until the next create_backup call that is
\* accepted, in every interleaving of the backup thread and the thread that
\* forwards its progress.
\* Refuted: the forwarding thread may send a BackupProgress after the backup
\* thread has sent BackupComplete, and its reconciliation sets
\* backup_progress to Some again.
C33_ProgressStaysNone ==
    backup.settled => backup.backup_progress = NoneP

\* The state the refutation ends in: no backup thread is at work, nothing is
\* left in either channel, and backup_progress is Some, so that every later
\* create_backup call is rejected as already in progress
BackupStuck ==
    /\ ~BackupRunning /\ task_queue = <<>>
    /\ \A k \in 1..Len(backup.runs) : backup.runs[k].chan = <<>>
    /\ backup.backup_progress # NoneP
    /\ backup.result = "already_in_progress"
=============================================================================
